---------------------------- MODULE Spec2Model ----------------------------
(***************************************************************************)
(* mcp-remote-deno: a stdio <-> HTTP+SSE bridge with OAuth.                *)
(*                                                                         *)
(* The module models the parts of the program, each under its own          *)
(* specification over the shared variables:                                *)
(*   SpecProxy     mcpProxy                       (src/lib/utils.ts)       *)
(*   SpecValid     isPidRunning / isLockValid     (src/lib/coordination.ts)*)
(*   SpecListener  setupOAuthCallbackServerWithLongPoll (src/lib/utils.ts) *)
(*   Spec          coordinateAuth, runProxy, connectToRemoteServer         *)
(*   SpecOpen      one run of coordinateAuth in any environment            *)
(*   SpecArgs      parseCommandLineArgs           (src/lib/utils.ts)       *)
(*   SpecWait      waitForAuthentication          (src/lib/coordination.ts)*)
(*   SpecPort      findAvailablePort              (src/lib/utils.ts)       *)
(*   SpecStore     the credential files           (src/lib/deno-open.ts)   *)
(*   SpecShutdown  the signal listeners and runProxy's cleanup             *)
(*   SpecConnect   connectToRemoteServer          (src/lib/utils.ts)       *)
(*   SpecFollow    waitForAuthentication against a responsive Leader       *)
(* A specification leaves the variables of the other parts unchanged.      *)
(***************************************************************************)
EXTENDS Integers, Sequences, FiniteSets, TLC

VARIABLES
  \* ---- mcpProxy (utils.ts:62-108)
  transportToClientClosed,  \* utils.ts:68  latch set by transportToClient.onclose
  transportToServerClosed,  \* utils.ts:69  latch set by transportToServer.onclose
  closeCalls,               \* [Sides -> Nat]  close() calls made on each transport (by the proxy; by cleanup)
  reported,                 \* [Sides -> BOOLEAN]  the transport itself has reported a close
  sentTo,                   \* [Sides -> Seq(Messages)]  arguments of send() on each transport
  received,                 \* [Sides -> Seq(Messages)]  messages each transport delivered to onmessage
  errorLog,                 \* Seq of "client"/"server": calls of onClientError / onServerError
  \* ---- one call of a function (isLockValid, coordinateAuth, ...) or one
  \* ---- small process (the signal listeners, connectToRemoteServer, followers)
  vIn,                      \* the arguments and what the environment answers
  vPc,                      \* the position of the call: the await it is at
  vResult,                  \* what the call has computed or resolved with
  \* ---- setupOAuthCallbackServerWithLongPoll (utils.ts:213-303), one listener
  cb,                       \* the listener: authCode, authCompletedPromise, requests, waiters
  cbHist,                   \* history of the listener's run (what the claims speak about)
  \* ---- coordinateAuth, runProxy, connectToRemoteServer: the bridge processes
  os,                       \* Deno.build.os of the machine
  dateNow,                  \* what Date.now() returns
  lockFile,                 \* [Fingerprints -> {} or {record}]  {hash}_lock.json
  tokensFile,               \* [Fingerprints -> token | NULL]   {hash}_tokens.json
  alive,                    \* [Procs -> BOOLEAN]  the process is running
  pc,                       \* [Procs -> position]  the await each process is at
  serverUrlHash,            \* [Procs -> Fingerprints]  the server each process targets
  callbackPort,             \* [Procs -> Ports]  its callback-port argument
  lockRead,                 \* [Procs -> {} or {record}]  lockData in coordinateAuth
  server,                   \* [Procs -> listener]  its callback listener's state
  listening,                \* [Procs -> BOOLEAN]  the listener is bound to callbackPort
  skipBrowserAuth,          \* [Procs -> "unset" | "true" | "false"]  what coordinateAuth returned
  polls,                    \* [Procs -> Nat]  202 answers waitForAuthentication has seen
  logins,                   \* [Procs -> Nat]  callback requests its listener has received
  pHist,                    \* [Procs -> record]  history of each process's run
  \* ---- the credential files (deno-open.ts:223-367)
  configDir,                \* [StorePaths -> content]  the files of getConfigDir()
  lastOp                    \* the last call of a provider method and what it returned

proxyVars == <<transportToClientClosed, transportToServerClosed, closeCalls,
               reported, sentTo, received, errorLog>>
validVars == <<vIn, vPc, vResult>>
listenerVars == <<cb, cbHist>>
coordVars == <<os, dateNow, lockFile, tokensFile, alive, pc, serverUrlHash,
               callbackPort, lockRead, server, listening, skipBrowserAuth,
               polls, logins, pHist>>
storeVars == <<configDir, lastOp>>
vars == <<proxyVars, validVars, listenerVars, coordVars, storeVars>>

-----------------------------------------------------------------------------
(* Bounds of the model *)

\* messages each transport delivers to the proxy
MaxMsgs == 2
\* error events each run reports (transport onerror events)
MaxErrors == 1
\* HTTP requests the callback listener receives
MaxReqs == 3
\* calls of waitForAuthCode() on one listener
MaxWaiters == 2
\* bridge processes started on the machine
MaxProcs == 3
\* processes that run the whole bridge in Spec
MaxBridges == 2
\* 31-minute steps of the clock
MaxTicks == 1
\* 202 answers after which a follower polls again
MaxPolls == 1
\* callback requests the browser sends to one leader
MaxLogins == 1
\* The longest argument list given to parseCommandLineArgs.
MaxArgs == 5
\* The answers drawn for the polls of one waitForAuthentication call.
MaxAnswers == 4
\* The most candidate ports that are in use when findAvailablePort runs.
MaxInUse == 11

-----------------------------------------------------------------------------
(***************************************************************************)
(* mcpProxy                                                                *)
(***************************************************************************)
Sides == {"client", "server"}
Other(t) == IF t = "client" THEN "server" ELSE "client"
Messages == {"m1", "m2"}

\* The proxy's closure state, as the handlers read and write it.
ProxyState == [cClosed |-> transportToClientClosed,
               sClosed |-> transportToServerClosed,
               calls   |-> closeCalls,
               errs    |-> errorLog]

RECURSIVE ClientOnClose(_, _), ServerOnClose(_, _), TransportClose(_, _, _)

\* transport.close(): the proxy's call is counted; a transport whose close()
\* resolves runs its own onclose handler before returning (as the SDK's
\* transports and the tests' MockTransport do); a rejected close() is passed
\* to .catch(onServerError / onClientError).
\* outcome[t] \in {"ok", "reject"} is what close() of transport t does.
TransportClose(t, ps, outcome) ==
  LET counted == [ps EXCEPT !.calls[t] = @ + 1] IN
  IF outcome[t] = "reject"
    THEN [counted EXCEPT !.errs = Append(@, t)]
    ELSE IF t = "server" THEN ServerOnClose(counted, outcome)
                         ELSE ClientOnClose(counted, outcome)

\* A mutant of ClientOnClose: the handler forgets to set its latch.
ClientOnCloseNoLatch(ps, outcome) ==
  IF ps.sClosed THEN ps
  ELSE TransportClose("server", ps, outcome)

\* A mutant of ClientOnClose: the handler does not look at the other latch.
ClientOnCloseUnguarded(ps, outcome) ==
  IF ps.cClosed THEN ps
  ELSE TransportClose("server", [ps EXCEPT !.cClosed = TRUE], outcome)

\* transportToClient.onclose
ClientOnClose(ps, outcome) ==
  IF ps.sClosed THEN ps
  ELSE TransportClose("server", [ps EXCEPT !.cClosed = TRUE], outcome)

\* transportToServer.onclose
ServerOnClose(ps, outcome) ==
  IF ps.cClosed THEN ps
  ELSE TransportClose("client", [ps EXCEPT !.sClosed = TRUE], outcome)

ProxyInit ==
  /\ transportToClientClosed = FALSE
  /\ transportToServerClosed = FALSE
  /\ closeCalls = [t \in Sides |-> 0]
  /\ reported = [t \in Sides |-> FALSE]
  /\ sentTo = [t \in Sides |-> <<>>]
  /\ received = [t \in Sides |-> <<>>]
  /\ errorLog = <<>>

SetProxyState(ps) ==
  /\ transportToClientClosed' = ps.cClosed
  /\ transportToServerClosed' = ps.sClosed
  /\ closeCalls' = ps.calls
  /\ errorLog' = ps.errs

\* The client transport reports a close: its onclose handler runs.
ClientCloseEvent ==
  /\ ~reported["client"]
  /\ reported' = [reported EXCEPT !["client"] = TRUE]
  /\ \E outcome \in [Sides -> {"ok", "reject"}] :
       SetProxyState(ClientOnClose(ProxyState, outcome))
  /\ UNCHANGED <<sentTo, received, validVars, storeVars, listenerVars, coordVars>>

\* The server transport reports a close: its onclose handler runs.
ServerCloseEvent ==
  /\ ~reported["server"]
  /\ reported' = [reported EXCEPT !["server"] = TRUE]
  /\ \E outcome \in [Sides -> {"ok", "reject"}] :
       SetProxyState(ServerOnClose(ProxyState, outcome))
  /\ UNCHANGED <<sentTo, received, validVars, storeVars, listenerVars, coordVars>>

\* A mutant of OnMessage: nothing is forwarded to a transport that has
\* reported a close.
OnMessageSkipsClosed(from, m, sendOk) ==
  /\ Len(received[from]) < MaxMsgs
  /\ received' = [received EXCEPT ![from] = Append(@, m)]
  /\ sentTo' = IF reported[Other(from)] THEN sentTo
               ELSE [sentTo EXCEPT ![Other(from)] = Append(@, m)]
  /\ errorLog' = IF sendOk THEN errorLog ELSE Append(errorLog, Other(from))
  /\ UNCHANGED <<transportToClientClosed, transportToServerClosed, closeCalls,
                 reported, validVars, storeVars, listenerVars, coordVars>>

\* transportToClient.onmessage / transportToServer.onmessage: the message a
\* transport delivers is passed to send() of the other one; a rejected send
\* is passed to the error callback of the transport it was sent on.
OnMessage(from, m, sendOk) ==
  /\ Len(received[from]) < MaxMsgs
  /\ received' = [received EXCEPT ![from] = Append(@, m)]
  /\ sentTo' = [sentTo EXCEPT ![Other(from)] = Append(@, m)]
  /\ errorLog' = IF sendOk THEN errorLog ELSE Append(errorLog, Other(from))
  /\ UNCHANGED <<transportToClientClosed, transportToServerClosed, closeCalls,
                 reported, validVars, storeVars, listenerVars, coordVars>>

ClientMessage == \E m \in Messages, ok \in BOOLEAN : OnMessage("client", m, ok)
ServerMessage == \E m \in Messages, ok \in BOOLEAN : OnMessage("server", m, ok)

\* A mutant of OnError: an error on a transport closes the other one.
OnErrorCloses(t) ==
  /\ Cardinality({i \in DOMAIN errorLog : errorLog[i] = t}) < MaxErrors
  /\ errorLog' = Append(errorLog, t)
  /\ closeCalls' = [closeCalls EXCEPT ![Other(t)] = @ + 1]
  /\ UNCHANGED <<transportToClientClosed, transportToServerClosed,
                 reported, sentTo, received, validVars, storeVars, listenerVars, coordVars>>

\* transport.onerror = onClientError / onServerError: the error is logged.
OnError(t) ==
  /\ Cardinality({i \in DOMAIN errorLog : errorLog[i] = t}) < MaxErrors
  /\ errorLog' = Append(errorLog, t)
  /\ UNCHANGED <<transportToClientClosed, transportToServerClosed, closeCalls,
                 reported, sentTo, received, validVars, storeVars, listenerVars, coordVars>>

ClientError == OnError("client")
ServerError == OnError("server")

NextProxy ==
  \/ ClientCloseEvent
  \/ ServerCloseEvent
  \/ ClientMessage
  \/ ServerMessage
  \/ ClientError
  \/ ServerError

\* C3 (as stated): a close event on one transport results in exactly one
\* close() call on the other transport, in both directions, also when both
\* transports report a close.
C3_EveryCloseMirroredOnce ==
  \A t \in Sides : reported[t] => closeCalls[Other(t)] = 1

\* C3 (amended): the proxy never calls close() twice on a transport; a close
\* reported by one transport while the other has reported none results in
\* exactly one close() call on the other and none on the reporting one; when
\* both transports report a close only the one handled first is mirrored, so
\* the proxy makes exactly one close() call in total; without a close event
\* the proxy calls close() on neither.
C3_CloseMirroredOnceUnlessLatched ==
  /\ \A t \in Sides : closeCalls[t] <= 1
  /\ \A t \in Sides :
       (reported[t] /\ ~reported[Other(t)])
         => (closeCalls[Other(t)] = 1 /\ closeCalls[t] = 0)
  /\ (reported["client"] /\ reported["server"])
       => closeCalls["client"] + closeCalls["server"] = 1
  /\ (~reported["client"] /\ ~reported["server"])
       => closeCalls["client"] + closeCalls["server"] = 0

\* Both transports have reported a close and one of them was mirrored.
C3_Witness ==
  /\ reported["client"] /\ reported["server"]
  /\ transportToClientClosed
  /\ closeCalls["server"] = 1

-----------------------------------------------------------------------------
(***************************************************************************)
(* isPidRunning / isLockValid                                              *)
(***************************************************************************)
\* coordination.ts:94
MAX_LOCK_AGE == 30 * 60 * 1000

\* What the command run by isPidRunning does: `kill -0 pid` exits 0
\* ("success") or not ("failure"), and tasklist on Windows prints the pid or
\* not; "throws" is Deno.Command failing (not found, not permitted).
CommandOutcomes == {"success", "failure", "throws"}

\* What fetch() answers: a response with a status, or a rejection
\* (connection refused, or the abort after the 1 s timeout).
Response(status) == [threw |-> FALSE, status |-> status]
FetchThrew(why) == [threw |-> TRUE, why |-> why]
FetchOutcomes ==
  {Response(st) : st \in {200, 202, 404, 500}}
    \cup {FetchThrew(w) : w \in {"refused", "aborted"}}

\* isPidRunning(pid): true only when the command ran and reported the pid.
IsPidRunning(command) ==
  IF command = "throws" THEN FALSE
  ELSE command = "success"

\* A mutant of IsLockValid: the age test is missing.
IsLockValidNoAgeCheck(lockData, now, command, probe) ==
  IF ~IsPidRunning(command) THEN FALSE
  ELSE IF probe.threw THEN FALSE
  ELSE probe.status = 200 \/ probe.status = 202

\* A mutant of IsLockValid: only 200 counts as a reachable leader.
IsLockValidOnly200(lockData, now, command, probe) ==
  IF now - lockData.timestamp > MAX_LOCK_AGE THEN FALSE
  ELSE IF ~IsPidRunning(command) THEN FALSE
  ELSE IF probe.threw THEN FALSE
  ELSE probe.status = 200

\* isLockValid(lockData), given what Date.now(), the liveness command and the
\* probe GET /wait-for-auth?poll=false answer.
IsLockValid(lockData, now, command, probe) ==
  IF now - lockData.timestamp > MAX_LOCK_AGE THEN FALSE
  ELSE IF ~IsPidRunning(command) THEN FALSE
  ELSE IF probe.threw THEN FALSE
  ELSE probe.status = 200 \/ probe.status = 202

\* The time of the call, and the ages of the lock records tried: fresh, one
\* millisecond around the limit, 31 minutes (the tests' expired record), and
\* a timestamp ahead of the clock.
ValidNow == 2 * MAX_LOCK_AGE
ValidAges == {0, MAX_LOCK_AGE - 1, MAX_LOCK_AGE, MAX_LOCK_AGE + 1,
              31 * 60 * 1000, 0 - 1000}

ValidIdle ==
  /\ vIn = [lockData |-> [pid |-> 0, port |-> 0, timestamp |-> 0], now |-> 0,
            command |-> "success", probe |-> Response(200)]
  /\ vPc = "idle"
  /\ vResult = FALSE

ValidInit ==
  /\ vIn \in [lockData : [pid : {1234}, port : {8000},
                         timestamp : {ValidNow - a : a \in ValidAges}],
              now : {ValidNow},
              command : CommandOutcomes,
              probe : FetchOutcomes]
  /\ vPc = "start"
  /\ vResult = FALSE

\* One call of isLockValid on the drawn record.
CallIsLockValid ==
  /\ vPc = "start"
  /\ vPc' = "done"
  /\ vResult' = IsLockValid(vIn.lockData, vIn.now, vIn.command, vIn.probe)
  /\ UNCHANGED <<vIn, proxyVars, listenerVars, coordVars, storeVars>>

NextValid == CallIsLockValid

LockAge == vIn.now - vIn.lockData.timestamp

\* C9: isLockValid is true if and only if the record's age is at most 30
\* minutes, the liveness check reports the owner pid alive, and the probe of
\* wait-for-auth?poll=false is answered 200 or 202 before the timeout; every
\* other outcome yields false.
C9_ValidIffFreshAliveReachable ==
  vPc = "done" =>
    (vResult <=> (/\ LockAge <= 30 * 60 * 1000
                  /\ vIn.command = "success"
                  /\ vIn.probe \in {Response(200), Response(202)}))

\* isLockValid has answered true on a record exactly 30 minutes old.
C9_Witness ==
  /\ vPc = "done" /\ vResult
  /\ LockAge = 30 * 60 * 1000
  /\ vIn.probe = Response(202)

\* C10: a lock record older than 30 minutes is classified invalid whatever
\* the liveness check and the reachability probe answer.
C10_ExpiredAlwaysInvalid ==
  (vPc = "done" /\ LockAge > 30 * 60 * 1000) => ~vResult

\* isLockValid has answered on an expired record whose owner is alive and
\* whose listener answers.
C10_Witness ==
  /\ vPc = "done" /\ ~vResult
  /\ LockAge > 30 * 60 * 1000
  /\ vIn.command = "success"
  /\ vIn.probe = Response(200)

-----------------------------------------------------------------------------
(***************************************************************************)
(* One run of coordinateAuth against a lock file and an environment in any *)
(* condition: what each awaited call answers is drawn beforehand.          *)
(***************************************************************************)
\* What {hash}_lock.json can hold: no file; a file that cannot be read; text
\* that is not JSON; the JSON value null; a JSON value that is no object; an
\* object whose pid, port or timestamp is not a number; a lock record.
LockFileStates ==
  {"missing", "unreadable", "notJson", "null", "notObject", "badFields",
   "record"}

\* The element of a one-element set
The(S) == CHOOSE x \in S : TRUE

\* A value returned, and an exception thrown, by an awaited call
Returned(v) == [threw |-> FALSE, value |-> v]
Threw(at) == [threw |-> TRUE, at |-> at]

\* Deno.readTextFile and JSON.parse in readJsonFile throw on these.
ReadOrParseThrows(file) == file \in {"missing", "unreadable", "notJson"}

\* checkLockfile's schema.parseAsync: null unless the data is an object with
\* numeric pid, port and timestamp.  {} stands for null and undefined.
LockSchemaParse(file, record) == IF file = "record" THEN {record} ELSE {}

\* readJsonFile(serverUrlHash, "lock.json", schema): undefined on any error.
ReadJsonFile(file, record) ==
  IF ReadOrParseThrows(file) THEN Returned({})
  ELSE Returned(LockSchemaParse(file, record))

\* A mutant of CheckLockfileValue: an error other than "file not found" is
\* thrown to the caller.
CheckLockfileValueRethrows(file, record) ==
  IF file \in {"unreadable", "notJson"} THEN Threw("checkLockfile")
  ELSE ReadJsonFile(file, record)

\* checkLockfile(serverUrlHash): the record, or null
CheckLockfileValue(file, record) ==
  LET lockfile == ReadJsonFile(file, record) IN
  IF lockfile.threw THEN Returned({}) ELSE lockfile

\* deleteLockfile(serverUrlHash): deleteConfigFile logs what Deno.remove
\* throws and returns.
DeleteLockfileValue(removeOk) == Returned(removeOk)

\* The rest of coordinateAuth, from setupOAuthCallbackServerWithLongPoll on:
\* listen() and createLockfile() are not guarded.
BecomeLeader(in, lock, deleted) ==
  IF ~in.bind THEN [role |-> "none", threwAt |-> "listen", lock |-> lock,
                    deleted |-> deleted]
  ELSE IF ~in.write THEN [role |-> "none", threwAt |-> "createLockfile",
                          lock |-> lock, deleted |-> deleted]
  ELSE [role |-> "Leader", threwAt |-> "", lock |-> lock, deleted |-> deleted]

\* coordinateAuth(serverUrlHash, callbackPort, events), given what its
\* environment answers: the role it returns with, or where it threw, how it
\* classified the lock and whether it called deleteLockfile.
CoordinateAuth(in) ==
  LET read == IF in.os = "windows" THEN Returned({})
              ELSE CheckLockfileValue(in.file, in.lockData)
  IN
  IF read.threw
    THEN [role |-> "none", threwAt |-> read.at, lock |-> "unknown",
          deleted |-> FALSE]
  ELSE IF read.value = {} THEN BecomeLeader(in, "absent", FALSE)
  ELSE IF IsLockValid(The(read.value), in.now, in.command, in.probe)
    THEN IF in.wait
           THEN [role |-> "Follower", threwAt |-> "", lock |-> "valid",
                 deleted |-> FALSE]
           ELSE IF DeleteLockfileValue(in.remove).threw
             THEN [role |-> "none", threwAt |-> "deleteLockfile",
                   lock |-> "valid", deleted |-> FALSE]
             ELSE BecomeLeader(in, "valid", TRUE)
  ELSE IF DeleteLockfileValue(in.remove).threw
    THEN [role |-> "none", threwAt |-> "deleteLockfile", lock |-> "invalid",
          deleted |-> FALSE]
    ELSE BecomeLeader(in, "invalid", TRUE)

\* The lock file in any condition, holding (if a record) a fresh or an
\* expired record; the liveness command, the probe, the wait on the owner,
\* Deno.remove, listen and createLockfile succeeding or not.
OpenInit ==
  /\ vIn \in [os : {"linux", "windows"},
              file : LockFileStates,
              lockData : [pid : {1234}, port : {8000},
                          timestamp : {ValidNow, ValidNow - 31 * 60 * 1000}],
              now : {ValidNow},
              command : CommandOutcomes,
              probe : FetchOutcomes,
              wait : BOOLEAN, remove : BOOLEAN,
              bind : BOOLEAN, write : BOOLEAN]
  /\ vPc = "start"
  /\ vResult = FALSE

\* One run of coordinateAuth in the drawn environment.
CallCoordinateAuth ==
  /\ vPc = "start"
  /\ vPc' = "done"
  /\ vResult' = CoordinateAuth(vIn)
  /\ UNCHANGED <<vIn, proxyVars, listenerVars, coordVars, storeVars>>

NextOpen == CallCoordinateAuth

\* The lock could not be read as a record, or the liveness check or the
\* reachability probe of its owner failed.
ValidationFailed(in) ==
  /\ in.os # "windows"
  /\ \/ in.file # "record"
     \/ in.command # "success"
     \/ in.probe \notin {Response(200), Response(202)}

\* C16: an unreadable or malformed lock file, a failing liveness check and a
\* failed, timed-out or unexpected-status probe are not thrown by
\* coordinateAuth: the lock counts as absent or invalid, an invalid one is
\* deleted, and the process goes on to start its listener and write its own
\* lock, returning as Leader when those two succeed; it never follows.
C16_ValidationFailsOpen ==
  (vPc = "done" /\ ValidationFailed(vIn)) =>
    /\ vResult.threwAt \in {"", "listen", "createLockfile"}
    /\ vResult.lock = IF vIn.file = "record" THEN "invalid" ELSE "absent"
    /\ vResult.deleted <=> vIn.file = "record"
    /\ vResult.role # "Follower"
    /\ (vIn.bind /\ vIn.write) <=> vResult.role = "Leader"

\* C16: a run that read a fresh record, whose liveness command could not
\* be started and whose Deno.remove failed, has returned as Leader.
C16_Witness ==
  /\ vPc = "done" /\ vResult.role = "Leader"
  /\ vIn.os = "linux" /\ vIn.file = "record"
  /\ vIn.lockData.timestamp = vIn.now
  /\ vIn.command = "throws" /\ ~vIn.remove

-----------------------------------------------------------------------------
(***************************************************************************)
(* parseCommandLineArgs                                                    *)
(***************************************************************************)
\* The words an argument list is made of.
ArgWords ==
  {"https://remote.example/sse", "http://remote.example/sse",
   "http://localhost:8080/sse", "http://127.0.0.1:8080/sse",
   "ws://localhost:8080/sse",
   "3334", "--allow-http", "--header", "A:1", "B:2", "--help"}

ArgLists == UNION {[1..n -> ArgWords] : n \in 0..MaxArgs}

\* new URL(serverUrl): protocol and hostname, or a TypeError.
NewURL(serverUrl) ==
  CASE serverUrl = "https://remote.example/sse" ->
         Returned([protocol |-> "https:", hostname |-> "remote.example"])
    [] serverUrl = "http://remote.example/sse" ->
         Returned([protocol |-> "http:", hostname |-> "remote.example"])
    [] serverUrl = "http://localhost:8080/sse" ->
         Returned([protocol |-> "http:", hostname |-> "localhost"])
    [] serverUrl = "http://127.0.0.1:8080/sse" ->
         Returned([protocol |-> "http:", hostname |-> "127.0.0.1"])
    [] serverUrl = "ws://localhost:8080/sse" ->
         Returned([protocol |-> "ws:", hostname |-> "localhost"])
    [] serverUrl = "A:1" -> Returned([protocol |-> "a:", hostname |-> ""])
    [] serverUrl = "B:2" -> Returned([protocol |-> "b:", hostname |-> ""])
    [] OTHER -> Threw("TypeError")

\* Number.parseInt(arg, 10): a number or NaN.
ParseInt(arg) ==
  IF arg = "3334" THEN [nan |-> FALSE, n |-> 3334] ELSE [nan |-> TRUE]

\* value.match(/^([A-Za-z0-9_-]+):(.*)$/): {<<name, rest>>}, or {} for null.
HeaderMatch(value) ==
  CASE value = "A:1" -> {<<"A", "1">>}
    [] value = "B:2" -> {<<"B", "2">>}
    [] value = "https://remote.example/sse" -> {<<"https", "//remote.example/sse">>}
    [] value = "http://remote.example/sse" -> {<<"http", "//remote.example/sse">>}
    [] value = "http://localhost:8080/sse" -> {<<"http", "//localhost:8080/sse">>}
    [] value = "http://127.0.0.1:8080/sse" -> {<<"http", "//127.0.0.1:8080/sse">>}
    [] value = "ws://localhost:8080/sse" -> {<<"ws", "//localhost:8080/sse">>}
    [] OTHER -> {}

\* args.splice(i, 2), with i counted from 1.
Splice2(args, i) ==
  [j \in 1..(Len(args) - 2) |-> IF j < i THEN args[j] ELSE args[j + 2]]

\* headers[name] = value
SetHeader(headers, name, value) ==
  [k \in DOMAIN headers \cup {name} |-> IF k = name THEN value ELSE headers[k]]

\* The callback of args.forEach at index i (counted from 1): a "--header"
\* that is not the last element is removed together with the element after
\* it, and that element is recorded if it has the form Name:Value.
ProcessHeader(st, i) ==
  LET args == st.args IN
  IF args[i] = "--header" /\ i < Len(args)
  THEN LET match == HeaderMatch(args[i + 1])
       IN [args |-> Splice2(args, i),
           headers |-> IF match # {}
                       THEN SetHeader(st.headers, The(match)[1], The(match)[2])
                       ELSE st.headers]
  ELSE st

\* args.forEach(callback): the indices below the length the array had at the
\* start are visited in increasing order; an index the array has no longer
\* is skipped.  The array is changed in place by the callback.
RECURSIVE ForEachHeader(_, _, _)
ForEachHeader(st, i, len) ==
  IF i > len THEN st
  ELSE ForEachHeader(IF i <= Len(st.args) THEN ProcessHeader(st, i) ELSE st,
                     i + 1, len)

NoHeaders == [k \in {} |-> ""]

\* parseCommandLineArgs(args, defaultPort, usage); `found` is the port
\* findAvailablePort(defaultPort) resolves with.
ParseCommandLineArgs(argv, found) ==
  IF \E i \in DOMAIN argv : argv[i] \in {"--help", "-h"}
  THEN [threw |-> FALSE, exit |-> 0]
  ELSE
  LET st == ForEachHeader([args |-> argv, headers |-> NoHeaders], 1, Len(argv))
      args == st.args
      allowHttp == \E i \in DOMAIN args : args[i] = "--allow-http"
      url == NewURL(args[1])
      isLocalhost == /\ url.value.hostname \in {"localhost", "127.0.0.1"}
                     /\ url.value.protocol = "http:"
      specifiedPort == ParseInt(args[2])
  IN IF Len(args) = 0 THEN Threw("Process exit called")
     ELSE IF url.threw THEN Threw("Process exit called")
     ELSE IF ~(url.value.protocol = "https:" \/ isLocalhost \/ allowHttp)
          THEN Threw("Process exit called")
     ELSE IF Len(args) >= 2 /\ specifiedPort.nan
          THEN Threw("Process exit called")
     ELSE Returned([serverUrl |-> args[1],
                    callbackPort |-> IF Len(args) >= 2 THEN specifiedPort.n
                                     ELSE found,
                    headers |-> st.headers])

ArgsInit ==
  /\ vIn \in [args : ArgLists, found : {3335}]
  /\ vPc = "start"
  /\ vResult = FALSE

CallParseCommandLineArgs ==
  /\ vPc = "start"
  /\ vPc' = "done"
  /\ vResult' = ParseCommandLineArgs(vIn.args, vIn.found)
  /\ UNCHANGED <<vIn, proxyVars, listenerVars, coordVars, storeVars>>

NextArgs == CallParseCommandLineArgs

\* parseCommandLineArgs has returned its result.
Accepted == vPc = "done" /\ ~vResult.threw /\ "value" \in DOMAIN vResult

\* A server URL, optionally followed by a callback port, optionally followed
\* by the override flag, and nothing else.
PlainUse(args) ==
  /\ Len(args) \in 1..3
  /\ ~NewURL(args[1]).threw
  /\ NewURL(args[1]).value.hostname # ""
  /\ Len(args) = 2 => args[2] \in {"3334", "--allow-http"}
  /\ Len(args) = 3 => args[2] = "3334" /\ args[3] = "--allow-http"

\* C23 (as stated): a server URL is accepted exactly when it is an HTTPS
\* URL, or its host is localhost or 127.0.0.1, or --allow-http is among the
\* arguments; every other URL is rejected.
C23_HttpsLoopbackOrOverride ==
  (vPc = "done" /\ PlainUse(vIn.args)) =>
    (Accepted <=>
       \/ NewURL(vIn.args[1]).value.protocol = "https:"
       \/ NewURL(vIn.args[1]).value.hostname \in {"localhost", "127.0.0.1"}
       \/ \E i \in DOMAIN vIn.args : vIn.args[i] = "--allow-http")

\* The '--header value' pairs of an argument list, read from the left.
RECURSIVE HeaderPairs(_)
HeaderPairs(args) ==
  IF Len(args) < 2 THEN <<>>
  ELSE IF args[1] = "--header"
       THEN <<args[2]>> \o HeaderPairs(SubSeq(args, 3, Len(args)))
       ELSE HeaderPairs(Tail(args))

\* The argument list without its '--header value' pairs.
RECURSIVE WithoutHeaders(_)
WithoutHeaders(args) ==
  IF Len(args) < 2 THEN args
  ELSE IF args[1] = "--header"
       THEN WithoutHeaders(SubSeq(args, 3, Len(args)))
       ELSE <<args[1]>> \o WithoutHeaders(Tail(args))

\* Every '--header' of the list is followed by a Name:Value word.
HeadersWellFormed(args) ==
  /\ args # <<>> => args[Len(args)] # "--header"
  /\ \A i \in DOMAIN HeaderPairs(args) :
       HeaderPairs(args)[i] \in {"A:1", "B:2"}

\* C24 (as stated): every '--header Name:Value' pair is collected into the
\* returned headers and removed from the arguments: the outcome, the server
\* URL and the callback port are those of the list without the pairs.
C24_HeadersCollectedAndRemoved ==
  (vPc = "done" /\ HeadersWellFormed(vIn.args)) =>
    LET plain == ParseCommandLineArgs(WithoutHeaders(vIn.args), vIn.found)
        pairs == HeaderPairs(vIn.args)
    IN /\ vResult.threw = plain.threw
       /\ Accepted =>
            /\ vResult.value.serverUrl = plain.value.serverUrl
            /\ vResult.value.callbackPort = plain.value.callbackPort
            /\ \A i \in DOMAIN pairs :
                 LET nv == The(HeaderMatch(pairs[i]))
                 IN nv[1] \in DOMAIN vResult.value.headers

\* C24: parseCommandLineArgs has returned for a list with one header pair.
C24_OneHeaderParsed ==
  /\ Accepted
  /\ Len(HeaderPairs(vIn.args)) = 1
  /\ DOMAIN vResult.value.headers # {}

-----------------------------------------------------------------------------
(***************************************************************************)
(* waitForAuthentication                                                   *)
(***************************************************************************)
\* What the polls of one call are answered with, in order.
AuthAnswers ==
  {Response(st) : st \in {200, 202, 404}} \cup {FetchThrew("refused")}

WaitInit ==
  /\ vIn \in [answers : UNION {[1..n -> AuthAnswers] : n \in 1..MaxAnswers}]
  /\ vPc = "fetch"
  /\ vResult = [polls |-> 0, returned |-> {}]

\* A mutant of WaitForAuthenticationPoll: a 202 ends the wait with false.
WaitForAuthenticationPollOnce(response, result) ==
  IF response.threw THEN [polls |-> result.polls + 1, returned |-> {FALSE}]
  ELSE IF response.status = 200
       THEN [polls |-> result.polls + 1, returned |-> {TRUE}]
       ELSE [polls |-> result.polls + 1, returned |-> {FALSE}]

\* One turn of the loop of waitForAuthentication with the answer to its
\* fetch: 200 returns true, 202 sleeps 1 s and goes round again, another
\* status returns false, a rejected fetch is caught and returns false.
WaitForAuthenticationPoll(response, result) ==
  IF response.threw THEN [polls |-> result.polls + 1, returned |-> {FALSE}]
  ELSE IF response.status = 200
       THEN [polls |-> result.polls + 1, returned |-> {TRUE}]
       ELSE IF response.status = 202
            THEN [polls |-> result.polls + 1, returned |-> {}]
            ELSE [polls |-> result.polls + 1, returned |-> {FALSE}]

\* The next fetch of the loop is answered.
WaitForAuthenticationFetch ==
  /\ vPc = "fetch"
  /\ vResult.polls < Len(vIn.answers)
  /\ vResult' = WaitForAuthenticationPoll(vIn.answers[vResult.polls + 1], vResult)
  /\ vPc' = IF vResult'.returned = {} THEN "fetch" ELSE "done"
  /\ UNCHANGED <<vIn, proxyVars, listenerVars, coordVars, storeVars>>

NextWait == WaitForAuthenticationFetch

\* The first n answers were all 202.
AllInProgress(n) == \A i \in 1..n : vIn.answers[i] = Response(202)

\* The polls made so far are exactly the answers up to the first one that is
\* not a 202, and the call has returned iff that answer was reached.
PolledToFirstFinal ==
  /\ vResult.polls <= Len(vIn.answers)
  /\ AllInProgress(vResult.polls - 1)
  /\ vResult.returned = {} <=> AllInProgress(vResult.polls)

\* C28: waitForAuthentication returns true exactly when a poll is answered
\* 200 after zero or more 202 answers, polls again after every 202, and
\* returns false at the first answer with another status and at the first
\* failed request.
C28_WaitForAuthenticationResult ==
  /\ PolledToFirstFinal
  /\ vResult.returned = {TRUE} <=>
       (vResult.polls > 0 /\ vIn.answers[vResult.polls] = Response(200))
  /\ vResult.returned = {FALSE} <=>
       (vResult.polls > 0 /\
        vIn.answers[vResult.polls] \notin {Response(200), Response(202)})
  /\ (vResult.returned = {} /\ vResult.polls < Len(vIn.answers)) =>
       ENABLED WaitForAuthenticationFetch

\* C28: the call returned true at its third poll, after two 202 answers.
C28_Witness ==
  /\ vResult.polls = 3
  /\ vResult.returned = {TRUE}
  /\ AllInProgress(2)

-----------------------------------------------------------------------------
(***************************************************************************)
(* findAvailablePort                                                       *)
(***************************************************************************)
AVAILABLE_PORT_START == 3000
MAX_PORT_ATTEMPTS == 10

\* preferredPort || AVAILABLE_PORT_START: the first candidate port.
StartPort(in) ==
  IF in.kind = "number" /\ in.preferred # 0 THEN in.preferred
  ELSE AVAILABLE_PORT_START

\* The first in.inUse candidate ports are in use.
PortInUse(in, port) == port < StartPort(in) + in.inUse

\* The promise findAvailablePort returns.
Pending == [state |-> "pending"]
Fulfilled(value) == [state |-> "fulfilled", value |-> value]
Rejected(reason) == [state |-> "rejected", reason |-> reason]

\* resolve(port) / reject(err): only the first call settles the promise.
Settle(st, outcome) ==
  [st EXCEPT !.promise = IF @ = Pending THEN outcome ELSE @,
             !.settleCalls = @ + 1]

\* cleanupAndReject(err): once only; clears the timer; closes the server
\* this call created and rejects from the close callback, or rejects at
\* once when the server was passed in.
CleanupAndReject(in, st, err) ==
  IF st.hasResolved THEN st
  ELSE LET s1 == [st EXCEPT !.hasResolved = TRUE, !.timeoutId = "cleared"]
       IN IF in.kind = "number"
          THEN [s1 EXCEPT !.closing = Append(@, Rejected(err))]
          ELSE Settle(s1, Rejected(err))

\* A mutant of TryNextPort: no attempt ceiling.
TryNextPortUnbounded(in, st) ==
  [st EXCEPT !.portAttempts = @ + 1, !.listenPending = TRUE]

\* tryNextPort(): gives up at MAX_PORT_ATTEMPTS, else counts the attempt and
\* calls serverToUse.listen({port: currentPort}).
TryNextPort(in, st) ==
  IF st.portAttempts >= MAX_PORT_ATTEMPTS
  THEN CleanupAndReject(in, st, "Timeout finding available port")
  ELSE [st EXCEPT !.portAttempts = @ + 1, !.listenPending = TRUE]

\* The state of a call before the promise executor has run.
NewSearch(in) ==
  [hasResolved |-> FALSE, portAttempts |-> 0, currentPort |-> StartPort(in),
   timeoutId |-> "none", listenPending |-> FALSE, closing |-> <<>>,
   promise |-> Pending, settleCalls |-> 0]

\* How many leading candidate ports are in use, and what the bind of the
\* first one that is not answers.
PortInit ==
  /\ vIn \in [kind : {"number"}, preferred : {3334, 0},
              inUse : 0..MaxInUse, next : {"free", "EACCES"}]
        \cup [kind : {"server", "undefined"}, preferred : {0},
              inUse : 0..MaxInUse, next : {"free", "EACCES"}]
  /\ vPc = "start"
  /\ vResult = NewSearch(vIn)

\* findAvailablePort(serverOrPort): the promise executor sets the 5 s
\* timer, registers the handlers on serverToUse and calls tryNextPort().
\* Without an argument serverToUse is undefined and serverToUse.on throws,
\* which rejects the promise.
FindAvailablePortCall ==
  /\ vPc = "start"
  /\ vPc' = "running"
  /\ LET st == [vResult EXCEPT !.timeoutId = "armed"]
     IN vResult' = IF vIn.kind = "undefined"
                   THEN Settle(st, Rejected("TypeError"))
                   ELSE TryNextPort(vIn, st)
  /\ UNCHANGED <<vIn, proxyVars, listenerVars, coordVars, storeVars>>

\* serverToUse answers a listen(): "error" with EADDRINUSE (next port),
\* "error" with another code (give up), or "listening" (close the server
\* and resolve with its port from the close callback).
ListenEvent ==
  /\ vPc = "running"
  /\ vResult.listenPending
  /\ LET st == [vResult EXCEPT !.listenPending = FALSE]
         port == st.currentPort
     IN vResult' =
          IF PortInUse(vIn, port)
          THEN TryNextPort(vIn, [st EXCEPT !.currentPort = @ + 1])
          ELSE IF vIn.next = "EACCES"
               THEN CleanupAndReject(vIn, st, "EACCES")
               ELSE [st EXCEPT !.hasResolved = TRUE,
                               !.timeoutId = "cleared",
                               !.closing = Append(@, Fulfilled(port))]
  /\ UNCHANGED <<vIn, vPc, proxyVars, listenerVars, coordVars, storeVars>>

\* The 5 s timer fires.
PortTimeout ==
  /\ vPc = "running"
  /\ vResult.timeoutId = "armed"
  /\ vResult' = CleanupAndReject(vIn, [vResult EXCEPT !.timeoutId = "fired"],
                                 "Timeout finding available port")
  /\ UNCHANGED <<vIn, vPc, proxyVars, listenerVars, coordVars, storeVars>>

\* The callback of serverToUse.close() runs: resolve(port) or reject(err).
CloseCallback ==
  /\ vPc = "running"
  /\ vResult.closing # <<>>
  /\ vResult' = Settle([vResult EXCEPT !.closing = Tail(@)],
                       Head(vResult.closing))
  /\ UNCHANGED <<vIn, vPc, proxyVars, listenerVars, coordVars, storeVars>>

NextPort ==
  \/ FindAvailablePortCall
  \/ ListenEvent
  \/ PortTimeout
  \/ CloseCallback

\* C29 (as stated): the call resolves with start+k exactly when the ports
\* start .. start+k-1 are in use and start+k can be bound, for k below the
\* attempt ceiling.
C29_FirstFreePort ==
  (vPc = "running" /\ vResult.promise # Pending) =>
    ((vIn.inUse < MAX_PORT_ATTEMPTS /\ vIn.next = "free") <=>
       vResult.promise = Fulfilled(StartPort(vIn) + vIn.inUse))

\* A call that resolves, resolves with the first candidate port that is not
\* in use, reached by probing the ports below it in increasing order.
ResolvesWithFirstFree ==
  vResult.promise.state = "fulfilled" =>
    /\ vResult.promise.value = StartPort(vIn) + vIn.inUse
    /\ vResult.portAttempts = vIn.inUse + 1
    /\ vIn.next = "free"

\* C29: with three ports in use the call has resolved with the fourth.
C29_ThirdPortUp ==
  /\ vIn.inUse = 3
  /\ vResult.promise = Fulfilled(StartPort(vIn) + 3)

\* The promise, once settled, keeps its result.
SettledOnce == vResult.promise # Pending => vResult'.promise = vResult.promise

\* C30: the search makes at most 10 bind attempts; when the first 10
\* candidate ports are all in use it rejects with 'Timeout finding
\* available port'; the promise is settled exactly once: it is settled in
\* the end and its result never changes.
C30_BoundedAndSettles ==
  /\ [](vResult.portAttempts <= 10)
  /\ []((vPc = "running" /\ vIn.kind # "undefined" /\ vIn.inUse >= 10
         /\ vResult.promise # Pending) =>
          vResult.promise = Rejected("Timeout finding available port"))
  /\ [][SettledOnce]_vars
  /\ <>(vResult.promise # Pending)

\* C30: ten attempts were made, every port was in use, and the call was
\* rejected by the ceiling, not by the timer.
C30_Witness ==
  /\ vResult.portAttempts = 10
  /\ vIn.inUse >= 10
  /\ vResult.timeoutId = "cleared"
  /\ vResult.promise = Rejected("Timeout finding available port")

-----------------------------------------------------------------------------
(***************************************************************************)
(* ResponseBuilder and setupOAuthCallbackServerWithLongPoll                *)
(***************************************************************************)
\* authCode = null, and a query parameter that is not given
NULL == "<null>"
ABSENT == "<undefined>"
Codes == {"abc123", "xyz789"}
\* JavaScript truthiness of a string | null | undefined
Truthy(x) == x # NULL /\ x # ABSENT /\ x # ""

\* new ResponseBuilder(): statusCode 200, headersSent false.  `sent` is the
\* status of the Response the builder resolved with (0: none yet); `timer`
\* and `thenReg` are the long-poll's setTimeout and its continuation on
\* authCompletedPromise.
NewResponse(route, poll, code) ==
  [route |-> route, poll |-> poll, code |-> code,
   statusCode |-> 200, headersSent |-> FALSE, sent |-> 0,
   timer |-> "none", thenReg |-> FALSE]

\* ResponseBuilder.status(code)
SetStatus(res, code) == [res EXCEPT !.statusCode = code]

\* ResponseBuilder.send(data): only the first send resolves the response.
Send(res) ==
  IF res.headersSent THEN res
  ELSE [res EXCEPT !.headersSent = TRUE, !.sent = res.statusCode]

\* reqs maps a request's key to its ResponseBuilder; Put adds request k.
Put(f, k, v) == [i \in DOMAIN f \cup {k} |-> IF i = k THEN v ELSE f[i]]

\* The listener after construction.
NewListener ==
  [authCode |-> NULL, authCompleted |-> NULL,
   reqs |-> <<>>, emitted |-> <<>>, waiters |-> <<>>]


\* A mutant of LongPollContinuation: the timer is left armed and 200 is
\* written over whatever response the request has.
LongPollContinuationUnguarded(res) ==
  [res EXCEPT !.thenReg = FALSE, !.statusCode = 200,
              !.headersSent = TRUE, !.sent = 200]

\* authCompletedPromise.then(...) of one long poll: clearTimeout, and 200
\* unless the response has been sent.
LongPollContinuation(res) ==
  LET cleared == [res EXCEPT !.thenReg = FALSE,
                             !.timer = IF @ = "armed" THEN "cleared" ELSE @]
  IN IF ~cleared.headersSent THEN Send(SetStatus(cleared, 200)) ELSE cleared

\* A mutant of ResolveAuthCompleted: a single-consumer signal, which wakes
\* only the long poll that registered first.
ResolveAuthCompletedFirstOnly(L, code) ==
  IF L.authCompleted # NULL THEN L
  ELSE LET regd == {i \in DOMAIN L.reqs : L.reqs[i].thenReg} IN
       [L EXCEPT !.authCompleted = code,
                 !.reqs = [i \in DOMAIN L.reqs |->
                            IF i \in regd /\ \A j \in regd : i <= j
                              THEN LongPollContinuation(L.reqs[i])
                              ELSE L.reqs[i]]]

\* authCompletedResolve(code): the first call settles the promise and runs
\* the continuation of every long poll registered on it (they run as
\* microtasks, before the next request or timer is handled); later calls do
\* nothing.
ResolveAuthCompleted(L, code) ==
  IF L.authCompleted # NULL THEN L
  ELSE [L EXCEPT !.authCompleted = code,
                 !.reqs = [i \in DOMAIN L.reqs |->
                            IF L.reqs[i].thenReg
                              THEN LongPollContinuation(L.reqs[i])
                              ELSE L.reqs[i]]]

\* options.events.emit("auth-code-received", code): every listener that
\* waitForAuthCode registered with once() resolves its promise with the code.
Emit(L, code) ==
  [L EXCEPT !.emitted = Append(@, code),
            !.waiters = [w \in DOMAIN L.waiters |->
                          IF L.waiters[w].state = "listening"
                            THEN [state |-> "resolved", value |-> code]
                            ELSE L.waiters[w]]]


\* A mutant of WaitForAuthRoute: poll=false is not looked at.
WaitForAuthRouteAlwaysLongPoll(L, k, poll) ==
  LET res == NewResponse("wait", poll, ABSENT) IN
  IF Truthy(L.authCode)
    THEN [L EXCEPT !.reqs = Put(@, k, Send(SetStatus(res, 200)))]
  ELSE [L EXCEPT !.reqs = Put(@, k, [res EXCEPT !.timer = "armed",
                                                !.thenReg = TRUE])]

\* app.get("/wait-for-auth", ...) handling a request with query poll.
WaitForAuthRoute(L, k, poll) ==
  LET res == NewResponse("wait", poll, ABSENT) IN
  IF Truthy(L.authCode)
    THEN [L EXCEPT !.reqs = Put(@, k, Send(SetStatus(res, 200)))]
  ELSE IF poll = "false"
    THEN [L EXCEPT !.reqs = Put(@, k, Send(SetStatus(res, 202)))]
  ELSE [L EXCEPT !.reqs = Put(@, k, [res EXCEPT !.timer = "armed",
                                                !.thenReg = TRUE])]

\* The long poll's 30 s timer callback.
LongPollTimer(L, i) ==
  [L EXCEPT !.reqs[i] = Send(SetStatus([@ EXCEPT !.timer = "fired"], 202))]

\* A mutant of CallbackRoute: the code is signalled but not recorded.
CallbackRouteNoRecord(L, k, code) ==
  LET res == NewResponse("callback", ABSENT, code) IN
  IF ~Truthy(code)
    THEN [L EXCEPT !.reqs = Put(@, k, Send(SetStatus(res, 400)))]
  ELSE LET answered == [ResolveAuthCompleted(L, code)
                          EXCEPT !.reqs = Put(@, k, Send(res))]
       IN Emit(answered, code)

\* A mutant of CallbackRoute: a request without a code is answered 400 and
\* completes the authentication all the same.
CallbackRouteCodelessSignals(L, k, code) ==
  LET res == NewResponse("callback", ABSENT, code)
      recorded == [L EXCEPT !.authCode = code]
      resolved == ResolveAuthCompleted(recorded, code)
  IN IF ~Truthy(code)
       THEN [resolved EXCEPT !.reqs = Put(@, k, Send(SetStatus(res, 400)))]
       ELSE Emit([resolved EXCEPT !.reqs = Put(@, k, Send(res))], code)

\* app.get(options.path, ...) handling a request with query code.
CallbackRoute(L, k, code) ==
  LET res == NewResponse("callback", ABSENT, code) IN
  IF ~Truthy(code)
    THEN [L EXCEPT !.reqs = Put(@, k, Send(SetStatus(res, 400)))]
  ELSE LET recorded == [L EXCEPT !.authCode = code]
           resolved == ResolveAuthCompleted(recorded, code)
           answered == [resolved EXCEPT !.reqs = Put(@, k, Send(res))]
       IN Emit(answered, code)

\* A mutant of WaitForAuthCode: the recorded code is not looked at.
WaitForAuthCodeListenOnly(L) ==
  [L EXCEPT !.waiters = Append(@, [state |-> "listening", value |-> NULL])]

\* waitForAuthCode(): resolves at once when authCode is set, and otherwise
\* on the next "auth-code-received" event.
WaitForAuthCode(L) ==
  [L EXCEPT !.waiters =
     Append(@, IF Truthy(L.authCode)
                 THEN [state |-> "resolved", value |-> L.authCode]
                 ELSE [state |-> "listening", value |-> NULL])]

\* The responses the clients have received so far, extended by those a
\* handler run from listener state L to L2 has resolved: a response is
\* received when a request that had none gets one, or gets another one.
Received(responses, L, L2) ==
  [i \in DOMAIN L2.reqs |->
     IF i \notin DOMAIN L.reqs
       THEN IF L2.reqs[i].headersSent THEN <<L2.reqs[i].sent>> ELSE <<>>
     ELSE IF L2.reqs[i].sent # L.reqs[i].sent
       THEN Append(responses[i], L2.reqs[i].sent)
     ELSE responses[i]]

\* History: firstCode is the code of the first callback request that carried
\* one; afterCode[i] tells whether request i arrived after it, and
\* calledAfterCode[w] whether the w-th call of waitForAuthCode was made after it;
\* pendingAtCode is the set of long polls not yet answered when it arrived;
\* responses[i] lists the statuses of the responses request i has received.
ListenerInit ==
  /\ cb = NewListener
  /\ cbHist = [firstCode |-> NULL, afterCode |-> <<>>, pendingAtCode |-> {},
               responses |-> <<>>, calledAfterCode |-> <<>>]

\* Requests are keyed 1, 2, ... in their order of arrival.
NextKey == Cardinality(DOMAIN cb.reqs) + 1

\* GET /wait-for-auth?poll=...
WaitForAuthRequest ==
  /\ NextKey <= MaxReqs
  /\ \E poll \in {"true", "false", ABSENT} :
       cb' = WaitForAuthRoute(cb, NextKey, poll)
  /\ cbHist' = [cbHist EXCEPT
                  !.afterCode = Append(@, cbHist.firstCode # NULL),
                  !.responses = Received(@, cb, cb')]
  /\ UNCHANGED <<proxyVars, validVars, storeVars, coordVars>>

\* GET /oauth/callback?code=...
CallbackRequest ==
  /\ NextKey <= MaxReqs
  /\ \E code \in Codes \cup {"", ABSENT} :
       /\ cb' = CallbackRoute(cb, NextKey, code)
       /\ cbHist' =
            IF Truthy(code) /\ cbHist.firstCode = NULL
              THEN [firstCode |-> code,
                    afterCode |-> Append(cbHist.afterCode, FALSE),
                    pendingAtCode |->
                      {i \in DOMAIN cb.reqs : /\ cb.reqs[i].route = "wait"
                                              /\ ~cb.reqs[i].headersSent},
                    responses |-> Received(cbHist.responses, cb, cb'),
                    calledAfterCode |-> cbHist.calledAfterCode]
              ELSE [cbHist EXCEPT
                      !.afterCode = Append(@, cbHist.firstCode # NULL),
                      !.responses = Received(@, cb, cb')]
  /\ UNCHANGED <<proxyVars, validVars, storeVars, coordVars>>

\* The 30 s timer of a pending long poll fires.
LongPollTimeout ==
  /\ \E i \in DOMAIN cb.reqs :
       /\ cb.reqs[i].timer = "armed"
       /\ cb' = LongPollTimer(cb, i)
  /\ cbHist' = [cbHist EXCEPT !.responses = Received(@, cb, cb')]
  /\ UNCHANGED <<proxyVars, validVars, storeVars, coordVars>>

\* The main flow calls waitForAuthCode().
WaitForAuthCodeCall ==
  /\ Len(cb.waiters) < MaxWaiters
  /\ cb' = WaitForAuthCode(cb)
  /\ cbHist' = [cbHist EXCEPT
                  !.calledAfterCode = Append(@, cbHist.firstCode # NULL)]
  /\ UNCHANGED <<proxyVars, validVars, storeVars, coordVars>>

NextListener ==
  \/ WaitForAuthRequest
  \/ CallbackRequest
  \/ LongPollTimeout
  \/ WaitForAuthCodeCall

WaitReqs == {i \in DOMAIN cb.reqs : cb.reqs[i].route = "wait"}

\* C4: once the callback route has handled a request with a code, every
\* later wait-for-auth request, with poll true, false or absent, is answered
\* 200 inside its handler: it never waits on the timer or on the signal.
C4_After_Callback_Always200 ==
  \A i \in WaitReqs :
    cbHist.afterCode[i] =>
      /\ cb.reqs[i].headersSent /\ cb.reqs[i].sent = 200
      /\ cb.reqs[i].timer = "none" /\ ~cb.reqs[i].thenReg

\* A status probe and a long poll have both arrived after the callback.
C4_Witness ==
  /\ \E i \in WaitReqs : cbHist.afterCode[i] /\ cb.reqs[i].poll = "false"
  /\ \E i \in WaitReqs : cbHist.afterCode[i] /\ cb.reqs[i].poll = "true"

\* C5: no wait-for-auth request is answered 200 before the callback route
\* has handled a request carrying a code, and every long poll that is
\* pending when that callback arrives is released with 200, however many
\* there are.
C5_BroadcastAfterSignal ==
  /\ \A i \in WaitReqs : cb.reqs[i].sent = 200 => cbHist.firstCode # NULL
  /\ \A i \in cbHist.pendingAtCode :
       cb.reqs[i].headersSent /\ cb.reqs[i].sent = 200

\* Two long polls were pending when the callback arrived.
C5_Witness ==
  /\ Cardinality(cbHist.pendingAtCode) >= 2
  /\ \A i \in cbHist.pendingAtCode : cb.reqs[i].sent = 200

\* C6: the callback route is idempotent: after the first request with a
\* code, a further callback request is ignored, so the recorded code, the
\* settled completion promise and every value waitForAuthCode delivers stay
\* those of the first request.
C6_CallbackIdempotent ==
  cbHist.firstCode # NULL =>
    /\ cb.authCode = cbHist.firstCode
    /\ cb.authCompleted = cbHist.firstCode
    /\ \A w \in DOMAIN cb.waiters :
         cb.waiters[w].state = "resolved"
           => cb.waiters[w].value = cbHist.firstCode

\* The status probes: wait-for-auth requests with poll=false.
Probes == {i \in WaitReqs : cb.reqs[i].poll = "false"}

\* C11: a wait-for-auth request with poll=false is answered by the handler
\* that receives it, 200 if a code has been received and 202 otherwise; it
\* arms no timer, registers no wait on the completion signal and gets no
\* other response later.
C11_ProbeNeverBlocks ==
  \A i \in Probes :
    /\ cb.reqs[i].headersSent
    /\ cb.reqs[i].sent = IF cbHist.afterCode[i] THEN 200 ELSE 202
    /\ cbHist.responses[i] = <<cb.reqs[i].sent>>
    /\ cb.reqs[i].timer = "none" /\ ~cb.reqs[i].thenReg

\* C11: one probe was answered 202 before the code arrived and one was
\* answered 200 after it.
C11_Witness ==
  /\ \E i \in Probes : cb.reqs[i].sent = 202 /\ ~cbHist.afterCode[i]
  /\ \E i \in Probes : cb.reqs[i].sent = 200 /\ cbHist.afterCode[i]

\* The long polls: wait-for-auth requests with poll other than false that
\* arrived before the authentication completed.
LongPolls ==
  {i \in WaitReqs : cb.reqs[i].poll # "false" /\ ~cbHist.afterCode[i]}

\* A long poll has at most one response: 200 when the completion signal
\* found it waiting, 202 when its timer fired first.
LongPollAnsweredAtMostOnce ==
  \A i \in LongPolls :
    /\ Len(cbHist.responses[i]) <= 1
    /\ cb.reqs[i].headersSent <=> Len(cbHist.responses[i]) = 1
    /\ cb.reqs[i].headersSent =>
         /\ cbHist.responses[i] = <<cb.reqs[i].sent>>
         /\ cb.reqs[i].sent = IF i \in cbHist.pendingAtCode THEN 200 ELSE 202
         /\ cb.reqs[i].sent = 202 <=> cb.reqs[i].timer = "fired"
         /\ cb.reqs[i].sent = 200 <=> cb.reqs[i].timer = "cleared"

\* C12: every long poll receives exactly one response, 200 if the
\* completion signal fires before its timer and 202 from the timer
\* otherwise; neither a signal after the 202 nor anything after the 200
\* adds a response or changes the one received.
C12_LongPollAnsweredExactlyOnce ==
  /\ []LongPollAnsweredAtMostOnce
  /\ \A i \in 1 .. MaxReqs :
       (i \in LongPolls /\ ~cb.reqs[i].headersSent)
         ~> (i \in LongPolls /\ cb.reqs[i].headersSent)

\* C12: a long poll was answered 202 by its timer and the signal fired
\* afterwards, and another long poll was released with 200 by the signal.
C12_Witness ==
  /\ cbHist.firstCode # NULL
  /\ \E i \in LongPolls : cb.reqs[i].sent = 202 /\ ~cb.reqs[i].thenReg
  /\ \E i \in LongPolls : cb.reqs[i].sent = 200

\* The callback requests that carried no code.
CodelessCallbacks ==
  {i \in DOMAIN cb.reqs : cb.reqs[i].route = "callback" /\ ~Truthy(cb.reqs[i].code)}

\* As long as no callback has carried a code, nothing is recorded or
\* signalled and every answer to wait-for-auth is 202.
NothingWithoutCode ==
  /\ \A i \in CodelessCallbacks : cb.reqs[i].sent = 400
  /\ cbHist.firstCode = NULL =>
       /\ cb.authCode = NULL /\ cb.authCompleted = NULL
       /\ cb.emitted = <<>>
       /\ \A w \in DOMAIN cb.waiters : cb.waiters[w].state = "listening"
       /\ \A i \in WaitReqs : cb.reqs[i].headersSent => cb.reqs[i].sent = 202

\* The step of the callback route on a request without a code: the request
\* is answered 400 and nothing else in the listener changes.
CodelessCallbackStep ==
  \A k \in DOMAIN cb'.reqs \ DOMAIN cb.reqs :
    (cb'.reqs[k].route = "callback" /\ ~Truthy(cb'.reqs[k].code))
      => /\ cb'.reqs[k].sent = 400
         /\ cb' = [cb EXCEPT !.reqs = Put(@, k, cb'.reqs[k])]

\* C13: a callback request without a code gets an error response and has no
\* other effect: no code is recorded, the completion signal is not fired,
\* no pending long poll is released and later wait-for-auth requests are
\* still answered 202.
C13_CodelessCallbackHasNoEffect ==
  /\ []NothingWithoutCode
  /\ [][CodelessCallbackStep]_vars

\* C13: a callback without a code was answered 400 while a long poll was
\* waiting, the long poll still waits and a later probe was answered 202.
C13_Witness ==
  \E k \in CodelessCallbacks :
    /\ cb.reqs[k].sent = 400
    /\ \E i \in LongPolls : i < k /\ ~cb.reqs[i].headersSent /\ cb.reqs[i].thenReg
    /\ \E j \in Probes : j > k /\ cb.reqs[j].sent = 202

\* The codes the callback route has been handed so far.
DeliveredCodes == {cb.emitted[i] : i \in DOMAIN cb.emitted}

\* C33: a call of waitForAuthCode() has resolved exactly when a callback
\* request carrying a code has been handled, whether the call was made before
\* or after that request, and it has resolved with a code delivered to the
\* callback route (the only one, when a single callback carried a code).
C33_WaitForAuthCodeNoMissedSignal ==
  \A w \in DOMAIN cb.waiters :
    /\ cb.waiters[w].state = "resolved" <=> cbHist.firstCode # NULL
    /\ cb.waiters[w].state = "resolved" =>
         /\ cb.waiters[w].value \in DeliveredCodes
         /\ Len(cb.emitted) = 1 => cb.waiters[w].value = cbHist.firstCode

\* C33: one call was made before the callback request and one after it, and
\* both have resolved with its code.
C33_Witness ==
  /\ Len(cb.waiters) = 2
  /\ ~cbHist.calledAfterCode[1] /\ cbHist.calledAfterCode[2]
  /\ \A w \in {1, 2} :
       cb.waiters[w].state = "resolved" /\ cb.waiters[w].value = cbHist.firstCode

-----------------------------------------------------------------------------
(***************************************************************************)
(* coordinateAuth, runProxy and connectToRemoteServer, run by MaxProcs     *)
(* bridge processes on one machine.  An action is the code a process runs  *)
(* from the completion of one await to the next await.                     *)
(* Assumed of the environment: `kill -0` can be run and tells whether the  *)
(* pid is alive, and a listening process answers the 1 s probe in time.    *)
(***************************************************************************)
\* Deno.pid of each process
Procs == 1 .. MaxProcs
Fingerprints == {"abc", "def"}
Ports == {3334, 4001, 8080}
\* The command lines the processes are started with: every process has a
\* callback port of its own, or processes 1 and 2 were given the same one.
PortPlans ==
  {[p \in Procs |-> IF p = 1 THEN 3334 ELSE IF p = 2 THEN 4001 ELSE 8080],
   [p \in Procs |-> IF p \in {1, 2} THEN 3334 ELSE 8080]}
\* All processes target the same server, or the first one targets another.
HashPlans ==
  {[p \in Procs |-> "abc"],
   [p \in Procs |-> IF p = 1 THEN "def" ELSE "abc"]}
TickMs == 31 * 60 * 1000

\* The process, if any, whose callback listener is bound to the port.
ListenerOn(port) ==
  {q \in Procs : alive[q] /\ listening[q] /\ callbackPort[q] = port}

\* `kill -0 pid`
KillCommand(pid) ==
  IF pid \in Procs /\ alive[pid] THEN "success" ELSE "failure"

\* fetch(`http://127.0.0.1:${port}/wait-for-auth?poll=false`) by process p
ProbeFetch(p, port) ==
  IF ListenerOn(port) = {} THEN FetchThrew("refused")
  ELSE LET q == The(ListenerOn(port))
           answered == WaitForAuthRoute(server[q], p, "false")
       IN Response(answered.reqs[p].sent)

\* f without key k
Drop(f, k) == [i \in DOMAIN f \ {k} |-> f[i]]

NoHistory ==
  [lockAtStart |-> {}, ownerAliveAtStart |-> FALSE, checked |-> "no",
   expiredAtCheck |-> FALSE, waitFailed |-> FALSE, deleted |-> FALSE,
   listened |-> "no", wrote |-> {}, followed |-> 0, tokensAtRead |-> "unread",
   leaderSavedAtRead |-> FALSE, saved |-> FALSE]

\* The first n processes are about to start, the others are never launched;
\* nothing is stored for any server yet, or tokens of an earlier run are.
CoordStart(n, stored) ==
  /\ os \in {"linux", "windows"} /\ dateNow = 0
  /\ lockFile = [f \in Fingerprints |-> {}]
  /\ \E t \in stored : tokensFile = [f \in Fingerprints |-> t]
  /\ alive = [p \in Procs |-> p <= n]
  /\ pc = [p \in Procs |-> IF p <= n THEN "init" ELSE "off"]
  /\ serverUrlHash \in HashPlans
  /\ callbackPort \in PortPlans
  /\ lockRead = [p \in Procs |-> {}]
  /\ server = [p \in Procs |-> NewListener]
  /\ listening = [p \in Procs |-> FALSE]
  /\ skipBrowserAuth = [p \in Procs |-> "unset"]
  /\ polls = [p \in Procs |-> 0]
  /\ logins = [p \in Procs |-> 0]
  /\ pHist = [p \in Procs |-> NoHistory]

\* No process is launched.
CoordIdle ==
  /\ os = "linux" /\ dateNow = 0
  /\ lockFile = [f \in Fingerprints |-> {}]
  /\ tokensFile = [f \in Fingerprints |-> NULL]
  /\ alive = [p \in Procs |-> FALSE]
  /\ pc = [p \in Procs |-> "off"]
  /\ serverUrlHash = [p \in Procs |-> "abc"]
  /\ callbackPort = [p \in Procs |-> 3334]
  /\ lockRead = [p \in Procs |-> {}]
  /\ server = [p \in Procs |-> NewListener]
  /\ listening = [p \in Procs |-> FALSE]
  /\ skipBrowserAuth = [p \in Procs |-> "unset"]
  /\ polls = [p \in Procs |-> 0]
  /\ logins = [p \in Procs |-> 0]
  /\ pHist = [p \in Procs |-> NoHistory]

\* listen(callbackPort) succeeds when no running process holds the port.
CanBind(p) == ListenerOn(callbackPort[p]) = {}

\* setupOAuthCallbackServerWithLongPoll({port: callbackPort, ...}) and
\* server.address(): the listener binds, or listen() throws because the port
\* is taken and the rejected coordinateAuth ends the process (exit code 1).
Listen(p) ==
  IF CanBind(p)
    THEN /\ listening' = [listening EXCEPT ![p] = TRUE]
         /\ pc' = [pc EXCEPT ![p] = "createLockfile"]
         /\ alive' = alive
    ELSE /\ listening' = listening
         /\ pc' = [pc EXCEPT ![p] = "threw"]
         /\ alive' = [alive EXCEPT ![p] = FALSE]

\* coordinateAuth starts: checkLockfile(serverUrlHash), skipped on Windows.
\* Without a lock record the process goes on to create its own.
CheckLockfile(p) ==
  /\ pc[p] = "init" /\ alive[p]
  /\ LET read == IF os = "windows" THEN {} ELSE lockFile[serverUrlHash[p]] IN
     /\ lockRead' = [lockRead EXCEPT ![p] = read]
     /\ pHist' = [pHist EXCEPT
          ![p].lockAtStart = lockFile[serverUrlHash[p]],
          ![p].ownerAliveAtStart =
             \E r \in lockFile[serverUrlHash[p]] : KillCommand(r.pid) = "success",
          ![p].listened =
             IF read = {} /\ CanBind(p) THEN "withoutDelete" ELSE "no"]
     /\ IF read = {}
          THEN Listen(p)
          ELSE /\ pc' = [pc EXCEPT ![p] = "isLockValid"]
               /\ UNCHANGED <<listening, alive>>
  /\ UNCHANGED <<os, dateNow, lockFile, tokensFile, serverUrlHash, callbackPort,
                 server, skipBrowserAuth, polls, logins>>
  /\ UNCHANGED <<proxyVars, validVars, storeVars, listenerVars>>

\* A mutant of ValidateLock: the lock is deleted whatever isLockValid says.
ValidateLockTakesOver(p) ==
  /\ pc[p] = "isLockValid" /\ alive[p]
  /\ LET ld == The(lockRead[p])
         valid == IsLockValid(ld, dateNow, KillCommand(ld.pid), ProbeFetch(p, ld.port))
     IN /\ pc' = [pc EXCEPT ![p] = "deleteLockfile"]
        /\ pHist' = [pHist EXCEPT
             ![p].checked = IF valid THEN "valid" ELSE "invalid",
             ![p].expiredAtCheck = dateNow - ld.timestamp > MAX_LOCK_AGE]
  /\ UNCHANGED <<os, dateNow, lockFile, tokensFile, alive, serverUrlHash,
                 callbackPort, lockRead, server, listening, skipBrowserAuth,
                 polls, logins>>
  /\ UNCHANGED <<proxyVars, validVars, storeVars, listenerVars>>

\* A mutant of ValidateLock: an invalid lock is left in place and the
\* listener started at once.
ValidateLockSkipsDelete(p) ==
  /\ pc[p] = "isLockValid" /\ alive[p]
  /\ LET ld == The(lockRead[p])
         valid == IsLockValid(ld, dateNow, KillCommand(ld.pid), ProbeFetch(p, ld.port))
     IN /\ pHist' = [pHist EXCEPT
             ![p].checked = IF valid THEN "valid" ELSE "invalid",
             ![p].expiredAtCheck = dateNow - ld.timestamp > MAX_LOCK_AGE,
             ![p].listened =
                IF ~valid /\ CanBind(p) THEN "withoutDelete" ELSE "no"]
        /\ IF valid
             THEN /\ pc' = [pc EXCEPT ![p] = "fetch"]
                  /\ UNCHANGED <<listening, alive>>
             ELSE Listen(p)
  /\ UNCHANGED <<os, dateNow, lockFile, tokensFile, serverUrlHash,
                 callbackPort, lockRead, server, skipBrowserAuth,
                 polls, logins>>
  /\ UNCHANGED <<proxyVars, validVars, storeVars, listenerVars>>

\* isLockValid(lockData) answers: a valid lock is followed
\* (waitForAuthentication sends its first request), an invalid one is deleted.
ValidateLock(p) ==
  /\ pc[p] = "isLockValid" /\ alive[p]
  /\ LET ld == The(lockRead[p])
         valid == IsLockValid(ld, dateNow, KillCommand(ld.pid), ProbeFetch(p, ld.port))
     IN /\ pc' = [pc EXCEPT ![p] = IF valid THEN "fetch" ELSE "deleteLockfile"]
        /\ pHist' = [pHist EXCEPT
             ![p].checked = IF valid THEN "valid" ELSE "invalid",
             ![p].expiredAtCheck = dateNow - ld.timestamp > MAX_LOCK_AGE]
  /\ UNCHANGED <<os, dateNow, lockFile, tokensFile, alive, serverUrlHash,
                 callbackPort, lockRead, server, listening, skipBrowserAuth,
                 polls, logins>>
  /\ UNCHANGED <<proxyVars, validVars, storeVars, listenerVars>>

\* waitForAuthentication: fetch(`http://127.0.0.1:${port}/wait-for-auth`)
\* reaches the listener on the lock's port, or is refused, which ends the
\* wait with false.
FetchArrives(p) ==
  /\ pc[p] = "fetch" /\ alive[p]
  /\ LET port == The(lockRead[p]).port IN
     IF ListenerOn(port) = {}
       THEN /\ pc' = [pc EXCEPT ![p] = "deleteLockfile"]
            /\ pHist' = [pHist EXCEPT ![p].waitFailed = TRUE]
            /\ server' = server
       ELSE /\ pc' = [pc EXCEPT ![p] = "response"]
            /\ server' = [server EXCEPT ![The(ListenerOn(port))] =
                            WaitForAuthRoute(@, p, ABSENT)]
            /\ pHist' = pHist
  /\ UNCHANGED <<os, dateNow, lockFile, tokensFile, alive, serverUrlHash,
                 callbackPort, lockRead, listening, skipBrowserAuth, polls,
                 logins>>
  /\ UNCHANGED <<proxyVars, validVars, storeVars, listenerVars>>

\* The process whose listener holds p's request.
Serving(p) == {q \in Procs : p \in DOMAIN server[q].reqs}

\* A mutant of ResponseArrives: a 202 answer ends the wait with false.
ResponseArrivesNoRepoll(p) ==
  /\ pc[p] = "response" /\ alive[p]
  /\ \E q \in Serving(p) :
       /\ alive[q]
       /\ server[q].reqs[p].headersSent
       /\ server' = [server EXCEPT ![q].reqs = Drop(@, p)]
       /\ IF server[q].reqs[p].sent = 200
            THEN /\ skipBrowserAuth' = [skipBrowserAuth EXCEPT ![p] = "true"]
                 /\ pc' = [pc EXCEPT ![p] = "sleep"]
                 /\ pHist' = [pHist EXCEPT ![p].followed = q]
                 /\ polls' = polls
            ELSE /\ polls' = [polls EXCEPT ![p] = @ + 1]
                 /\ pc' = [pc EXCEPT ![p] = "deleteLockfile"]
                 /\ pHist' = [pHist EXCEPT ![p].waitFailed = TRUE]
                 /\ UNCHANGED skipBrowserAuth
  /\ UNCHANGED <<os, dateNow, lockFile, tokensFile, alive, serverUrlHash,
                 callbackPort, lockRead, listening, logins>>
  /\ UNCHANGED <<proxyVars, validVars, storeVars, listenerVars>>

\* waitForAuthentication reads the response: 200 ends the wait with true and
\* coordinateAuth returns skipBrowserAuth = true (runProxy then sleeps 1 s);
\* 202 is followed, after 1 s, by the next request.
ResponseArrives(p) ==
  /\ pc[p] = "response" /\ alive[p]
  /\ \E q \in Serving(p) :
       /\ alive[q]
       /\ server[q].reqs[p].headersSent
       /\ server' = [server EXCEPT ![q].reqs = Drop(@, p)]
       /\ IF server[q].reqs[p].sent = 200
            THEN /\ skipBrowserAuth' = [skipBrowserAuth EXCEPT ![p] = "true"]
                 /\ pc' = [pc EXCEPT ![p] = "sleep"]
                 /\ pHist' = [pHist EXCEPT ![p].followed = q]
                 /\ polls' = polls
            ELSE /\ polls' = [polls EXCEPT ![p] = @ + 1]
                 /\ pc' = [pc EXCEPT ![p] = "fetch"]
                 /\ UNCHANGED <<skipBrowserAuth, pHist>>
  /\ UNCHANGED <<os, dateNow, lockFile, tokensFile, alive, serverUrlHash,
                 callbackPort, lockRead, listening, logins>>
  /\ UNCHANGED <<proxyVars, validVars, storeVars, listenerVars>>

\* The process answering p's request is gone: fetch rejects and the wait
\* ends with false.
ConnectionLost(p) ==
  /\ pc[p] = "response" /\ alive[p]
  /\ \E q \in Serving(p) :
       /\ ~alive[q]
       /\ server' = [server EXCEPT ![q].reqs = Drop(@, p)]
  /\ pc' = [pc EXCEPT ![p] = "deleteLockfile"]
  /\ pHist' = [pHist EXCEPT ![p].waitFailed = TRUE]
  /\ UNCHANGED <<os, dateNow, lockFile, tokensFile, alive, serverUrlHash,
                 callbackPort, lockRead, listening, skipBrowserAuth, polls,
                 logins>>
  /\ UNCHANGED <<proxyVars, validVars, storeVars, listenerVars>>

\* The 30 s timer of a long poll held by q's listener fires.
LeaderLongPollTimeout(q) ==
  /\ alive[q] /\ listening[q]
  /\ \E k \in DOMAIN server[q].reqs :
       /\ server[q].reqs[k].timer = "armed"
       /\ polls[k] < MaxPolls
       /\ server' = [server EXCEPT ![q] = LongPollTimer(@, k)]
  /\ UNCHANGED <<os, dateNow, lockFile, tokensFile, alive, pc, serverUrlHash,
                 callbackPort, lockRead, listening, skipBrowserAuth, polls,
                 logins, pHist>>
  /\ UNCHANGED <<proxyVars, validVars, storeVars, listenerVars>>

\* deleteLockfile(serverUrlHash) removes the lock file of the server, then
\* the process goes on to create its own.
DeleteLockfile(p) ==
  /\ pc[p] = "deleteLockfile" /\ alive[p]
  /\ lockFile' = [lockFile EXCEPT ![serverUrlHash[p]] = {}]
  /\ pHist' = [pHist EXCEPT
       ![p].deleted = TRUE,
       ![p].listened = IF CanBind(p) THEN "afterDelete" ELSE "no"]
  /\ Listen(p)
  /\ UNCHANGED <<os, dateNow, tokensFile, serverUrlHash, callbackPort, lockRead,
                 server, skipBrowserAuth, polls, logins>>
  /\ UNCHANGED <<proxyVars, validVars, storeVars, listenerVars>>

\* createLockfile(serverUrlHash, Deno.pid, actualPort) writes the lock file;
\* the exit handlers are registered and coordinateAuth returns
\* skipBrowserAuth = false; runProxy starts connecting.
CreateLockfile(p) ==
  /\ pc[p] = "createLockfile" /\ alive[p]
  /\ LET rec == [pid |-> p, port |-> callbackPort[p], timestamp |-> dateNow] IN
     /\ lockFile' = [lockFile EXCEPT ![serverUrlHash[p]] = {rec}]
     /\ pHist' = [pHist EXCEPT ![p].wrote = {rec}]
  /\ skipBrowserAuth' = [skipBrowserAuth EXCEPT ![p] = "false"]
  /\ pc' = [pc EXCEPT ![p] = "connect"]
  /\ UNCHANGED <<os, dateNow, tokensFile, alive, serverUrlHash, callbackPort,
                 lockRead, server, listening, polls, logins>>
  /\ UNCHANGED <<proxyVars, validVars, storeVars, listenerVars>>

\* runProxy of a Follower: the 1 s sleep after coordinateAuth ends.
FollowerSleepEnds(p) ==
  /\ pc[p] = "sleep" /\ alive[p]
  /\ pc' = [pc EXCEPT ![p] = "connect"]
  /\ UNCHANGED <<os, dateNow, lockFile, tokensFile, alive, serverUrlHash,
                 callbackPort, lockRead, server, listening, skipBrowserAuth,
                 polls, logins, pHist>>
  /\ UNCHANGED <<proxyVars, validVars, storeVars, listenerVars>>

\* NodeOAuthClientProvider.tokens(): what {hash}_tokens.json holds
Tokens(hash) == tokensFile[hash]

\* connectToRemoteServer: transport.start() reads the stored tokens and
\* connects, or fails with Unauthorized (always, without tokens).  A Leader has
\* then sent the user to the authorization page; a Follower goes on to wait on
\* the promise that never resolves.
Connect(p) ==
  /\ pc[p] = "connect" /\ alive[p]
  /\ pHist' = [pHist EXCEPT
       ![p].tokensAtRead = Tokens(serverUrlHash[p]),
       ![p].leaderSavedAtRead =
          pHist[p].followed \in Procs /\ pHist[pHist[p].followed].saved]
  /\ \E outcome \in IF Tokens(serverUrlHash[p]) = NULL
                      THEN {"Unauthorized"}
                      ELSE {"connected", "Unauthorized"} :
       pc' = [pc EXCEPT ![p] =
                IF outcome = "connected" THEN "connected"
                ELSE IF skipBrowserAuth[p] = "false" THEN "redirected"
                ELSE "hung"]
  /\ UNCHANGED <<os, dateNow, lockFile, tokensFile, alive, serverUrlHash,
                 callbackPort, lockRead, server, listening, skipBrowserAuth,
                 polls, logins>>
  /\ UNCHANGED <<proxyVars, validVars, storeVars, listenerVars>>

\* connectToRemoteServer's catch: waitForAuthCode() is called.
AwaitAuthCode(p) ==
  /\ pc[p] = "redirected" /\ alive[p]
  /\ server' = [server EXCEPT ![p] = WaitForAuthCode(@)]
  /\ pc' = [pc EXCEPT ![p] = "awaitCode"]
  /\ UNCHANGED <<os, dateNow, lockFile, tokensFile, alive, serverUrlHash,
                 callbackPort, lockRead, listening, skipBrowserAuth, polls,
                 logins, pHist>>
  /\ UNCHANGED <<proxyVars, validVars, storeVars, listenerVars>>

\* The browser, sent back by the authorization server, requests
\* GET /oauth/callback?code=... from q's listener.
BrowserCallback(q) ==
  /\ alive[q] /\ listening[q]
  /\ pc[q] \in {"redirected", "awaitCode", "exchange", "reconnect",
              "connectedAfterAuth"}
  /\ logins[q] < MaxLogins
  /\ \E code \in Codes :
       server' = [server EXCEPT ![q] =
                    [CallbackRoute(@, 0, code) EXCEPT !.reqs = Drop(@, 0)]]
  /\ logins' = [logins EXCEPT ![q] = @ + 1]
  /\ UNCHANGED <<os, dateNow, lockFile, tokensFile, alive, pc, serverUrlHash,
                 callbackPort, lockRead, listening, skipBrowserAuth, polls,
                 pHist>>
  /\ UNCHANGED <<proxyVars, validVars, storeVars, listenerVars>>

\* waitForAuthCode() has resolved: transport.finishAuth(code) starts the
\* token exchange.
FinishAuthStarts(p) ==
  /\ pc[p] = "awaitCode" /\ alive[p]
  /\ \E i \in DOMAIN server[p].waiters : server[p].waiters[i].state = "resolved"
  /\ pc' = [pc EXCEPT ![p] = "exchange"]
  /\ UNCHANGED <<os, dateNow, lockFile, tokensFile, alive, serverUrlHash,
                 callbackPort, lockRead, server, listening, skipBrowserAuth,
                 polls, logins, pHist>>
  /\ UNCHANGED <<proxyVars, validVars, storeVars, listenerVars>>

\* Deno.exit(code) of a process that returned from coordinateAuth with its
\* own listener: the unload handler removes the lock file of its server.
ExitWithUnload(p) ==
  /\ lockFile' = [lockFile EXCEPT ![serverUrlHash[p]] = {}]
  /\ alive' = [alive EXCEPT ![p] = FALSE]
  /\ listening' = [listening EXCEPT ![p] = FALSE]
  /\ pc' = [pc EXCEPT ![p] = "exited"]

\* finishAuth ends: the tokens are saved (NodeOAuthClientProvider.saveTokens)
\* and the new transport is started, or the exchange fails and runProxy's
\* catch closes the listener and exits with code 1.
FinishAuthEnds(p) ==
  /\ pc[p] = "exchange" /\ alive[p]
  /\ \E ok \in BOOLEAN :
       IF ok
         THEN /\ tokensFile' = [tokensFile EXCEPT ![serverUrlHash[p]] = "fresh"]
              /\ pc' = [pc EXCEPT ![p] = "reconnect"]
              /\ pHist' = [pHist EXCEPT ![p].saved = TRUE]
              /\ UNCHANGED <<lockFile, alive, listening>>
         ELSE /\ ExitWithUnload(p)
              /\ UNCHANGED <<tokensFile, pHist>>
  /\ UNCHANGED <<os, dateNow, serverUrlHash, callbackPort, lockRead, server,
                 skipBrowserAuth, polls, logins>>
  /\ UNCHANGED <<proxyVars, validVars, storeVars, listenerVars>>

\* newTransport.start() ends: the proxy is established, or runProxy's catch
\* exits with code 1.
Reconnect(p) ==
  /\ pc[p] = "reconnect" /\ alive[p]
  /\ \E ok \in BOOLEAN :
       IF ok
         THEN /\ pc' = [pc EXCEPT ![p] = "connectedAfterAuth"]
              /\ UNCHANGED <<lockFile, alive, listening>>
         ELSE ExitWithUnload(p)
  /\ UNCHANGED <<os, dateNow, tokensFile, serverUrlHash, callbackPort, lockRead,
                 server, skipBrowserAuth, polls, logins, pHist>>
  /\ UNCHANGED <<proxyVars, validVars, storeVars, listenerVars>>

\* SIGINT reaches a process that registered coordinateAuth's handlers:
\* cleanupHandler deletes the lock file, then Deno.exit(0) runs the unload
\* handler.
Sigint(p) ==
  /\ alive[p] /\ skipBrowserAuth[p] = "false"
  /\ ExitWithUnload(p)
  /\ UNCHANGED <<os, dateNow, tokensFile, serverUrlHash, callbackPort, lockRead,
                 server, skipBrowserAuth, polls, logins, pHist>>
  /\ UNCHANGED <<proxyVars, validVars, storeVars, listenerVars>>

\* SIGTERM reaches a process that registered coordinateAuth's handlers.  Once
\* the proxy is established setupSignalHandlers has registered cleanup, which
\* ends in Deno.exit(0) and the unload handler; before that nothing listens
\* for SIGTERM and the process is terminated without any cleanup.
Sigterm(p) ==
  /\ alive[p] /\ skipBrowserAuth[p] = "false"
  /\ IF pc[p] \in {"connected", "connectedAfterAuth"}
       THEN ExitWithUnload(p)
       ELSE /\ alive' = [alive EXCEPT ![p] = FALSE]
            /\ listening' = [listening EXCEPT ![p] = FALSE]
            /\ pc' = [pc EXCEPT ![p] = "terminated"]
            /\ lockFile' = lockFile
  /\ UNCHANGED <<os, dateNow, tokensFile, serverUrlHash, callbackPort, lockRead,
                 server, skipBrowserAuth, polls, logins, pHist>>
  /\ UNCHANGED <<proxyVars, validVars, storeVars, listenerVars>>

\* A process that owns a listener is killed (SIGKILL): nothing is cleaned up.
\* (The death of a process without a listener is seen by no other process.)
Killed(p) ==
  /\ alive[p] /\ listening[p]
  /\ alive' = [alive EXCEPT ![p] = FALSE]
  /\ listening' = [listening EXCEPT ![p] = FALSE]
  /\ pc' = [pc EXCEPT ![p] = "killed"]
  /\ UNCHANGED <<os, dateNow, lockFile, tokensFile, serverUrlHash, callbackPort,
                 lockRead, server, skipBrowserAuth, polls, logins, pHist>>
  /\ UNCHANGED <<proxyVars, validVars, storeVars, listenerVars>>

\* More than 30 minutes pass.
Tick ==
  /\ dateNow < MaxTicks * TickMs
  /\ dateNow' = dateNow + TickMs
  /\ UNCHANGED <<os, lockFile, tokensFile, alive, pc, serverUrlHash,
                 callbackPort, lockRead, server, listening, skipBrowserAuth,
                 polls, logins, pHist>>
  /\ UNCHANGED <<proxyVars, validVars, storeVars, listenerVars>>

-----------------------------------------------------------------------------
(***************************************************************************)
(* The credential files of a fingerprint: writeJsonFile, readJsonFile,     *)
(* writeTextFile, readTextFile and the provider methods that call them.    *)
(***************************************************************************)

\* JavaScript values: a string, a number, an array of strings, undefined.
\* An object is a function from its own property names to values.
Undefined == [t |-> "undefined"]
JsNull == [t |-> "null"]
Str(s) == [t |-> "string", s |-> s]
Num(n) == [t |-> "number", n |-> n]
Arr(a) == [t |-> "array", a |-> a]

\* o[k]: the value of a property, undefined when the object has none.
Get(o, k) == IF k \in DOMAIN o THEN o[k] ELSE Undefined

\* The order in which the properties of a record are enumerated.
PropertyOrder ==
  <<"access_token", "token_type", "expires_in", "refresh_token",
    "client_id", "client_secret", "redirect_uris",
    "pid", "port", "timestamp">>

\* A value as JSON text.
JsonOf(v) ==
  CASE v.t = "string" -> [j |-> "string", chars |-> v.s]
    [] v.t = "number" -> [j |-> "number", digits |-> v.n]
    [] v.t = "array" -> [j |-> "array", items |-> v.a]

\* A JSON text as a value.
ValueOf(json) ==
  CASE json.j = "string" -> Str(json.chars)
    [] json.j = "number" -> Num(json.digits)
    [] json.j = "array" -> Arr(json.items)

\* The members JSON.stringify emits for an object: one per property, in
\* property order; a property whose value is undefined is left out.
RECURSIVE Members(_, _)
Members(data, keys) ==
  IF keys = <<>> THEN <<>>
  ELSE LET k == Head(keys)
           rest == Members(data, Tail(keys))
       IN IF k \in DOMAIN data /\ data[k] # Undefined
          THEN <<[key |-> k, json |-> JsonOf(data[k])]>> \o rest
          ELSE rest

\* JSON.stringify(data, null, 2) of an object (the indentation is white
\* space between the members).
JsonStringify(data) ==
  [kind |-> "object", members |-> Members(data, PropertyOrder)]

\* JSON.parse(content): an object with one property per member; anything
\* that is not JSON text throws a SyntaxError.
JsonParse(content) ==
  IF content.kind # "object" THEN Threw("JSON.parse")
  ELSE LET ms == content.members
           keys == {ms[i].key : i \in DOMAIN ms}
       IN Returned([k \in keys |->
            ValueOf(The({ms[i].json : i \in {j \in DOMAIN ms : ms[j].key = k}}))])

\* The schemas the provider passes to readJsonFile
\* (@modelcontextprotocol/sdk 1.10.2, shared/auth.js): the declared
\* properties, and what parsing does with undeclared ones.
OAuthTokensSchema ==
  [shape |-> [access_token |-> [type |-> "string", optional |-> FALSE],
              token_type |-> [type |-> "string", optional |-> FALSE],
              expires_in |-> [type |-> "number", optional |-> TRUE],
              refresh_token |-> [type |-> "string", optional |-> TRUE]],
   invalid |-> "throws", unknownKeys |-> "strip"]

OAuthClientInformationSchema ==
  [shape |-> [client_id |-> [type |-> "string", optional |-> FALSE],
              client_secret |-> [type |-> "string", optional |-> TRUE]],
   invalid |-> "throws", unknownKeys |-> "strip"]

\* The schema checkLockfile passes to readJsonFile: null unless pid, port
\* and timestamp are numbers; the data itself otherwise.
LockfileSchema ==
  [shape |-> [pid |-> [type |-> "number", optional |-> FALSE],
              port |-> [type |-> "number", optional |-> FALSE],
              timestamp |-> [type |-> "number", optional |-> FALSE]],
   invalid |-> "null", unknownKeys |-> "passthrough"]

\* schema.parseAsync(value): throws (or, for the lock file, returns null)
\* when a declared property is missing or has the wrong type; returns the declared properties the value has, and
\* the undeclared ones only if the schema passes them through.
SchemaParse(schema, value) ==
  LET shape == schema.shape
      bad == {k \in DOMAIN shape :
                IF Get(value, k) = Undefined THEN ~shape[k].optional
                ELSE Get(value, k).t # shape[k].type}
      declared == {k \in DOMAIN shape : Get(value, k) # Undefined}
      kept == IF schema.unknownKeys = "passthrough"
              THEN declared \cup (DOMAIN value \ DOMAIN shape)
              ELSE declared
  IN IF bad # {}
     THEN IF schema.invalid = "null" THEN Returned(JsNull)
          ELSE Threw("parseAsync")
     ELSE Returned([k \in kept |-> value[k]])

\* The UTF-8 encoding of the characters a stored text is made of.
Utf8(ch) ==
  CASE ch = "a" -> 97
    [] ch = "Z" -> 90
    [] ch = "-" -> 45
    [] ch = "~" -> 126

\* Deno.writeTextFile encodes the string.
TextEncode(text) == [i \in DOMAIN text |-> Utf8(text[i])]

\* Deno.readTextFile decodes the bytes.
TextDecode(bytes) ==
  [i \in DOMAIN bytes |-> The({ch \in {"a", "Z", "-", "~"} : Utf8(ch) = bytes[i]})]

\* The error message codeVerifier passes to readTextFile.
NoCodeVerifier == "No code verifier saved for session"

StoreFiles ==
  {"tokens.json", "client_info.json", "code_verifier.txt", "lock.json"}

\* A mutant of GetConfigFilePath: the file name has no fingerprint prefix.
GetConfigFilePathNoHash(hash, filename) == <<"", filename>>

\* getConfigFilePath: {configDir}/{serverUrlHash}_{filename}.
GetConfigFilePath(hash, filename) == <<hash, filename>>

StorePaths == {GetConfigFilePath(h, f) : h \in Fingerprints, f \in StoreFiles}

\* A file that does not exist.
Missing == [kind |-> "missing"]

\* ensureConfigDir and Deno.writeTextFile either write the file or throw.
WriteOutcomes == {"ok", "threw"}

\* What saveTokens, saveClientInformation and saveCodeVerifier are given.
TokenSets ==
  { [access_token |-> Str("at1"), token_type |-> Str("Bearer"),
     expires_in |-> Undefined, refresh_token |-> Str("rt1")],
    [access_token |-> Str("at2"), token_type |-> Str("Bearer"),
     expires_in |-> Num(3600), refresh_token |-> Str("rt2")] }

ClientInformationFulls ==
  { [client_id |-> Str("c1"), client_secret |-> Str("s1"),
     redirect_uris |-> Arr(<<"http://127.0.0.1:3334/oauth/callback">>)] }

\* What createLockfile writes: pid, port and Date.now().
LockfileDatas == { [pid |-> Num(4242), port |-> Num(3334),
                    timestamp |-> Num(1700000000)] }

CodeVerifiers == { <<"a", "~", "Z">>, <<"Z", "-", "a", "a">> }

StoreIdle ==
  /\ configDir = [p \in StorePaths |-> Missing]
  /\ lastOp = [op |-> "none"]

\* What a read that follows a write of the same file was written with.
JustWrote(hash, filename) ==
  IF /\ lastOp.op = "write"
     /\ lastOp.hash = hash /\ lastOp.filename = filename
     /\ ~lastOp.threw
  THEN {lastOp.data} ELSE {}

\* writeJsonFile(serverUrlHash, filename, data)
WriteJsonFile(hash, filename, data, outcome) ==
  /\ configDir' =
       IF outcome = "ok"
       THEN [configDir EXCEPT ![GetConfigFilePath(hash, filename)] =
               JsonStringify(data)]
       ELSE configDir
  /\ lastOp' = IF outcome = "ok"
               THEN [op |-> "write", hash |-> hash, filename |-> filename,
                     data |-> data, threw |-> FALSE]
               ELSE [op |-> "write", hash |-> hash, filename |-> filename,
                     threw |-> TRUE]
  /\ UNCHANGED <<proxyVars, validVars, listenerVars, coordVars>>

\* A mutant of ReadJsonFileValue: a file that does not exist is an error.
ReadJsonFileValueThrowsNotFound(dir, hash, filename, schema) ==
  LET content == dir[GetConfigFilePath(hash, filename)]
      json == JsonParse(content)
      result == IF json.threw THEN json ELSE SchemaParse(schema, json.value)
  IN IF content = Missing THEN Threw("NotFound")
     ELSE IF result.threw \/ result.value = JsNull THEN Returned(Undefined)
     ELSE result

\* readJsonFile(serverUrlHash, filename, schema): the parsed content, or
\* undefined when reading, JSON.parse or the schema throws and when the
\* schema returns null (result ?? undefined).
ReadJsonFileValue(dir, hash, filename, schema) ==
  LET content == dir[GetConfigFilePath(hash, filename)]
      json == JsonParse(content)
      result == IF json.threw THEN json ELSE SchemaParse(schema, json.value)
  IN IF content = Missing \/ result.threw \/ result.value = JsNull
     THEN Returned(Undefined)
     ELSE result

\* checkLockfile(serverUrlHash): the lock record, or null (lockfile || null;
\* null also when readJsonFile throws).
CheckLockfileResult(dir, hash) ==
  LET lockfile == ReadJsonFileValue(dir, hash, "lock.json", LockfileSchema)
  IN IF lockfile.threw \/ lockfile.value = Undefined THEN Returned(JsNull)
     ELSE lockfile


ReadJsonFileCall(hash, filename, schema) ==
  /\ lastOp' = [op |-> "read", hash |-> hash, filename |-> filename,
                wrote |-> JustWrote(hash, filename),
                again |-> FALSE,
                result |-> ReadJsonFileValue(configDir, hash, filename, schema)]
  /\ UNCHANGED <<configDir, proxyVars, validVars, listenerVars, coordVars>>

\* writeTextFile(serverUrlHash, filename, text)
WriteTextFile(hash, filename, text, outcome) ==
  /\ configDir' =
       IF outcome = "ok"
       THEN [configDir EXCEPT ![GetConfigFilePath(hash, filename)] =
               [kind |-> "text", bytes |-> TextEncode(text)]]
       ELSE configDir
  /\ lastOp' = IF outcome = "ok"
               THEN [op |-> "write", hash |-> hash, filename |-> filename,
                     data |-> text, threw |-> FALSE]
               ELSE [op |-> "write", hash |-> hash, filename |-> filename,
                     threw |-> TRUE]
  /\ UNCHANGED <<proxyVars, validVars, listenerVars, coordVars>>

\* `Error reading ${filename}`
ErrorReading(filename) ==
  CASE filename = "code_verifier.txt" -> "Error reading code_verifier.txt"
    [] filename = "tokens.json" -> "Error reading tokens.json"
    [] filename = "client_info.json" -> "Error reading client_info.json"

\* A mutant of ReadTextFileValue: the caller's error message is ignored.
ReadTextFileValueGenericError(dir, hash, filename, errorMessage) ==
  LET content == dir[GetConfigFilePath(hash, filename)]
  IN IF content = Missing THEN Threw(ErrorReading(filename))
     ELSE Returned(TextDecode(content.bytes))

\* readTextFile(serverUrlHash, filename, errorMessage): the content, or a
\* new Error(errorMessage || `Error reading ${filename}`) when the file
\* cannot be read.
ReadTextFileValue(dir, hash, filename, errorMessage) ==
  LET content == dir[GetConfigFilePath(hash, filename)]
  IN IF content = Missing
     THEN Threw(IF errorMessage \notin {ABSENT, ""} THEN errorMessage
                ELSE ErrorReading(filename))
     ELSE Returned(TextDecode(content.bytes))

\* The last call has read, without failing, the file this call reads.
JustRead(hash, filename) ==
  /\ lastOp.op = "read"
  /\ lastOp.hash = hash /\ lastOp.filename = filename
  /\ ~lastOp.result.threw

ReadTextFileCall(hash, filename, errorMessage) ==
  /\ lastOp' = [op |-> "read", hash |-> hash, filename |-> filename,
                wrote |-> JustWrote(hash, filename),
                again |-> JustRead(hash, filename),
                result |-> ReadTextFileValue(configDir, hash, filename,
                                             errorMessage)]
  /\ UNCHANGED <<configDir, proxyVars, validVars, listenerVars, coordVars>>

\* NodeOAuthClientProvider, one provider per fingerprint.
SaveTokens ==
  \E hash \in Fingerprints, tokens \in TokenSets, outcome \in WriteOutcomes :
    WriteJsonFile(hash, "tokens.json", tokens, outcome)

ReadTokens ==
  \E hash \in Fingerprints :
    ReadJsonFileCall(hash, "tokens.json", OAuthTokensSchema)

SaveClientInformation ==
  \E hash \in Fingerprints, clientInformation \in ClientInformationFulls,
     outcome \in WriteOutcomes :
    WriteJsonFile(hash, "client_info.json", clientInformation, outcome)

ClientInformation ==
  \E hash \in Fingerprints :
    ReadJsonFileCall(hash, "client_info.json", OAuthClientInformationSchema)

SaveCodeVerifier ==
  \E hash \in Fingerprints, codeVerifier \in CodeVerifiers,
     outcome \in WriteOutcomes :
    WriteTextFile(hash, "code_verifier.txt", codeVerifier, outcome)

CodeVerifier ==
  \E hash \in Fingerprints :
    ReadTextFileCall(hash, "code_verifier.txt", NoCodeVerifier)

\* createLockfile(serverUrlHash, pid, port)
CreateLockfileCall ==
  \E hash \in Fingerprints, lockData \in LockfileDatas,
     outcome \in WriteOutcomes :
    WriteJsonFile(hash, "lock.json", lockData, outcome)

\* checkLockfile(serverUrlHash)
CheckLockfileCall ==
  \E hash \in Fingerprints :
    /\ lastOp' = [op |-> "read", hash |-> hash, filename |-> "lock.json",
                  wrote |-> JustWrote(hash, "lock.json"),
                  again |-> FALSE,
                  result |-> CheckLockfileResult(configDir, hash)]
    /\ UNCHANGED <<configDir, proxyVars, validVars, listenerVars, coordVars>>

\* deleteConfigFile(serverUrlHash, filename): Deno.remove(filePath); what it
\* throws is ignored or logged.
DeleteConfigFile(hash, filename) ==
  /\ configDir' = [configDir EXCEPT ![GetConfigFilePath(hash, filename)] = Missing]
  /\ lastOp' = [op |-> "delete", hash |-> hash, filename |-> filename]
  /\ UNCHANGED <<proxyVars, validVars, listenerVars, coordVars>>

\* deleteLockfile(serverUrlHash)
DeleteLockfileCall ==
  \E hash \in Fingerprints : DeleteConfigFile(hash, "lock.json")

\* A mutant of RedirectToAuthorizationValue: what open() throws is thrown
\* to the caller.
RedirectToAuthorizationValueRethrows(opens) ==
  [openCalls |-> 1,
   logged |-> <<"Please authorize this client by visiting:">> \o
              (IF opens THEN <<"Browser opened automatically.">> ELSE <<>>),
   result |-> IF opens THEN Returned(Undefined) ELSE Threw("open")]

\* redirectToAuthorization(authorizationUrl): logs the URL, awaits
\* open(url) once; logs that the browser was opened, or, when open rejects,
\* that the URL has to be copied.  `opens` is whether open() resolves.
RedirectToAuthorizationValue(opens) ==
  [openCalls |-> 1,
   logged |-> <<"Please authorize this client by visiting:",
                IF opens THEN "Browser opened automatically."
                ELSE "Could not open browser automatically. Please copy and paste the URL above into your browser.">>,
   result |-> Returned(Undefined)]

RedirectToAuthorization ==
  \E hash \in Fingerprints, opens \in BOOLEAN :
    /\ lastOp' = [op |-> "redirect", hash |-> hash, opens |-> opens,
                  did |-> RedirectToAuthorizationValue(opens)]
    /\ UNCHANGED <<configDir, proxyVars, validVars, listenerVars, coordVars>>

NextStore ==
  \/ RedirectToAuthorization
  \/ CreateLockfileCall
  \/ CheckLockfileCall
  \/ DeleteLockfileCall
  \/ SaveTokens
  \/ ReadTokens
  \/ SaveClientInformation
  \/ ClientInformation
  \/ SaveCodeVerifier
  \/ CodeVerifier

\* Two objects have the same value in every property either of them has.
SameFields(a, b) ==
  \A k \in DOMAIN a \cup DOMAIN b : Get(a, k) = Get(b, k)

\* The last call read back the file the call before it has written.
ReadBack(filename) ==
  /\ lastOp.op = "read"
  /\ lastOp.filename = filename
  /\ lastOp.wrote # {}

\* A JSON record read back right after it was written is an object with the
\* field values that were written.
JsonRoundTrip(filename) ==
  ReadBack(filename) =>
    /\ lastOp.result.value # Undefined
    /\ SameFields(lastOp.result.value, The(lastOp.wrote))

\* The token set read back right after saveTokens has the field values that
\* were saved.
TokensRoundTrip == JsonRoundTrip("tokens.json")

\* The code verifier read back right after saveCodeVerifier is the string
\* that was saved.
CodeVerifierRoundTrip ==
  ReadBack("code_verifier.txt") =>
    lastOp.result = Returned(The(lastOp.wrote))

\* codeVerifier() was the last call, for a fingerprint with no stored
\* verifier.
VerifierMissingAtRead ==
  /\ lastOp.op = "read"
  /\ lastOp.filename = "code_verifier.txt"
  /\ configDir[GetConfigFilePath(lastOp.hash, "code_verifier.txt")] = Missing

\* C21: codeVerifier() for a fingerprint that has no stored code verifier
\* returns no value: it fails with the error 'No code verifier saved for
\* session', not with the generic read error.
C21_MissingVerifierError ==
  VerifierMissingAtRead =>
    /\ lastOp.result.threw
    /\ lastOp.result.at = "No code verifier saved for session"
    /\ lastOp.result.at # ErrorReading("code_verifier.txt")

\* C21: codeVerifier() was called for a fingerprint without a verifier
\* while the other fingerprint has one stored.
C21_Witness ==
  /\ VerifierMissingAtRead
  /\ \E h \in Fingerprints :
       configDir[GetConfigFilePath(h, "code_verifier.txt")] # Missing

\* C22 (as stated): a second read of the code verifier, after the read
\* that consumed it, is an error.
C22_SecondReadFails ==
  (/\ lastOp.op = "read"
   /\ lastOp.filename = "code_verifier.txt"
   /\ lastOp.again) => lastOp.result.threw

\* A JSON file or the lock file was read for a fingerprint that has none.
RecordMissingAtRead ==
  /\ lastOp.op = "read"
  /\ lastOp.filename # "code_verifier.txt"
  /\ configDir[GetConfigFilePath(lastOp.hash, lastOp.filename)] = Missing

\* A call that reads leaves every file as it is.
ReadChangesNothing == lastOp'.op = "read" => configDir' = configDir

\* C25: reading a record that does not exist is not an error: readJsonFile
\* resolves with undefined and checkLockfile with null, and a read creates
\* or changes no record.
C25_NotFoundIsNormal ==
  /\ [](RecordMissingAtRead =>
          lastOp.result = IF lastOp.filename = "lock.json"
                          THEN Returned(JsNull) ELSE Returned(Undefined))
  /\ [][ReadChangesNothing]_vars

\* C25: the lock file and the token file of a fingerprint were read while
\* missing, with records of the other fingerprint stored.
C25_Witness ==
  /\ RecordMissingAtRead
  /\ lastOp.filename = "lock.json"
  /\ \E h \in Fingerprints :
       /\ configDir[GetConfigFilePath(h, "lock.json")] # Missing
       /\ configDir[GetConfigFilePath(h, "tokens.json")] # Missing

\* The records of fingerprint h.
RecordsOf(dir, h) == [f \in StoreFiles |-> dir[GetConfigFilePath(h, f)]]

\* A call for one fingerprint leaves the records of every other one as
\* they are.
OtherFingerprintsUntouched ==
  \A h \in Fingerprints :
    (lastOp'.op # "none" /\ lastOp'.hash # h) =>
      RecordsOf(configDir', h) = RecordsOf(configDir, h)

\* C27: a write or delete of the client registration, the tokens, the code
\* verifier or the lock record of one fingerprint leaves all records of
\* every other fingerprint unchanged.
C27_FingerprintsIndependent == [][OtherFingerprintsUntouched]_vars

\* C27: every record of one fingerprint is stored, and the lock of the
\* other one has just been deleted while its tokens are stored.
C27_Witness ==
  /\ lastOp.op = "delete"
  /\ \E h \in Fingerprints :
       /\ h # lastOp.hash
       /\ \A f \in StoreFiles : configDir[GetConfigFilePath(h, f)] # Missing
  /\ configDir[GetConfigFilePath(lastOp.hash, "tokens.json")] # Missing

\* C26: redirectToAuthorization completes without error whether open()
\* succeeds or fails; it calls open() exactly once, and on failure it only
\* tells the user to copy the URL.
C26_PresenterFailureNotFatal ==
  lastOp.op = "redirect" =>
    /\ ~lastOp.did.result.threw
    /\ lastOp.did.openCalls = 1
    /\ Len(lastOp.did.logged) = 2
    /\ lastOp.did.logged[2] = "Browser opened automatically." <=> lastOp.opens

\* C26: redirectToAuthorization has completed after open() failed.
C26_Witness ==
  /\ lastOp.op = "redirect"
  /\ ~lastOp.opens
  /\ ~lastOp.did.result.threw

\* C20 (as stated): for every fingerprint, a record read back right after it
\* was persisted is the value that was written: the token set and the client
\* registration have identical field values, the code verifier is the
\* identical string.
C20_RoundTripIdentical ==
  /\ TokensRoundTrip
  /\ JsonRoundTrip("client_info.json")
  /\ CodeVerifierRoundTrip

\* C20: a client registration has been read back right after it was
\* written.
C20_ClientInformationReadBack == ReadBack("client_info.json")

\* MaxBridges processes run the whole bridge.
Init ==
  CoordStart(MaxBridges, {NULL, "stored"}) /\ ProxyInit /\ ValidIdle /\ ListenerInit
  /\ StoreIdle

Next ==
  \/ \E p \in Procs : CheckLockfile(p)
  \/ \E p \in Procs : ValidateLock(p)
  \/ \E p \in Procs : FetchArrives(p)
  \/ \E p \in Procs : ResponseArrives(p)
  \/ \E p \in Procs : ConnectionLost(p)
  \/ \E p \in Procs : LeaderLongPollTimeout(p)
  \/ \E p \in Procs : DeleteLockfile(p)
  \/ \E p \in Procs : CreateLockfile(p)
  \/ \E p \in Procs : FollowerSleepEnds(p)
  \/ \E p \in Procs : Connect(p)
  \/ \E p \in Procs : AwaitAuthCode(p)
  \/ \E p \in Procs : BrowserCallback(p)
  \/ \E p \in Procs : FinishAuthStarts(p)
  \/ \E p \in Procs : FinishAuthEnds(p)
  \/ \E p \in Procs : Reconnect(p)
  \/ \E p \in Procs : Sigint(p)
  \/ \E p \in Procs : Sigterm(p)
  \/ \E p \in Procs : Killed(p)
  \/ Tick

Spec == Init /\ [][Next]_vars

\* MaxProcs processes run coordinateAuth; what they do once it has returned
\* is left out.
InitCoordinate ==
  CoordStart(MaxProcs, {NULL}) /\ ProxyInit /\ ValidIdle /\ ListenerInit
  /\ StoreIdle

NextCoordinate ==
  \/ \E p \in Procs : CheckLockfile(p)
  \/ \E p \in Procs : ValidateLock(p)
  \/ \E p \in Procs : FetchArrives(p)
  \/ \E p \in Procs : ResponseArrives(p)
  \/ \E p \in Procs : ConnectionLost(p)
  \/ \E p \in Procs : LeaderLongPollTimeout(p)
  \/ \E p \in Procs : DeleteLockfile(p)
  \/ \E p \in Procs : CreateLockfile(p)
  \/ \E p \in Procs : Sigint(p)
  \/ \E p \in Procs : Killed(p)
  \/ Tick

SpecCoordinate == InitCoordinate /\ [][NextCoordinate]_vars

\* C18: the messages passed to send() of a transport are the messages the
\* other transport has delivered, each once, unchanged and in the order of
\* their arrival, in both directions.
C18_ForwardedOnceInOrder ==
  \A t \in Sides : sentTo[Other(t)] = received[t]

\* C18: each transport has delivered two messages, in opposite orders, and
\* a send has failed.
C18_Witness ==
  /\ sentTo["server"] = <<"m1", "m2">>
  /\ sentTo["client"] = <<"m2", "m1">>
  /\ errorLog # <<>>

\* A step in which no transport reports a close (a message, with its send
\* succeeding or failing, or an error event) makes no close() call and
\* leaves both latches as they are.
NoCloseWithoutCloseEvent ==
  reported' = reported =>
    /\ closeCalls' = closeCalls
    /\ transportToClientClosed' = transportToClientClosed
    /\ transportToServerClosed' = transportToServerClosed

\* C19: failed sends and error events are only reported: they never make the
\* proxy call close() and never change a latch; close() is called on a
\* transport only when the other transport has reported a close.
C19_ErrorsNeverClose ==
  /\ [][NoCloseWithoutCloseEvent]_vars
  /\ [](\A t \in Sides : closeCalls[t] > 0 => reported[Other(t)])
  /\ [](transportToClientClosed => reported["client"])
  /\ [](transportToServerClosed => reported["server"])

\* C19: a send has failed on each transport and an error event was reported
\* on each, and no close() was called and no latch set.
C19_Witness ==
  /\ Len(errorLog) >= 3
  /\ \A t \in Sides : received[t] # <<>> /\ closeCalls[t] = 0 /\ ~reported[t]
  /\ ~transportToClientClosed /\ ~transportToServerClosed

\* In this step no latch that is set becomes unset.
LatchesStaySet ==
  /\ transportToClientClosed => transportToClientClosed'
  /\ transportToServerClosed => transportToServerClosed'

\* C34: transportToClientClosed and transportToServerClosed are never both
\* set, and a latch that has been set is never cleared.
C34_LatchesExclusive ==
  /\ [](~(transportToClientClosed /\ transportToServerClosed))
  /\ [][LatchesStaySet]_vars

\* C34: the server transport closed first and the client transport, closed
\* by the proxy, has reported its close too: only the server's latch is set.
C34_Witness ==
  /\ reported["client"] /\ reported["server"]
  /\ transportToServerClosed /\ ~transportToClientClosed
  /\ closeCalls["client"] = 1

-----------------------------------------------------------------------------
(* Leader election, as seen in the processes' state *)

\* The running process has returned from coordinateAuth with skipBrowserAuth = false.
IsLeader(p) == alive[p] /\ skipBrowserAuth[p] = "false"
\* The running process has returned from coordinateAuth with skipBrowserAuth = true.
IsFollower(p) == alive[p] /\ skipBrowserAuth[p] = "true"

\* What isLockValid would answer for the record right now.
LockValidNow(r) ==
  IsLockValid(r, dateNow, KillCommand(r.pid), ProbeFetch(0, r.port))

\* The Leaders for f beside which a valid lock record of another process lies.
LeadersBesideForeignLock(f) ==
  {p \in Procs : /\ serverUrlHash[p] = f
                 /\ IsLeader(p)
                 /\ \E r \in lockFile[f] : r.pid # p /\ LockValidNow(r)}

\* C1 (as stated): for every fingerprint, at most one process is Leader
\* while a valid lock record for the fingerprint exists that it does not own.
C1_AtMostOneLeaderBesideForeignLock ==
  \A f \in Fingerprints : Cardinality(LeadersBesideForeignLock(f)) <= 1

\* C1 (amended): a process is Leader only if coordinateAuth ran on Windows,
\* or read no lock record, or classified the record it read as invalid, or
\* its wait on the record's owner failed; a process that classified the
\* record as valid and whose wait did not fail never starts a listener.
C1_LeaderOnlyWithoutUsableLock ==
  \A p \in Procs :
    (skipBrowserAuth[p] = "false" \/ listening[p] \/ pHist[p].listened # "no")
      => \/ os = "windows"
         \/ lockRead[p] = {}
         \/ pHist[p].checked = "invalid"
         \/ pHist[p].checked = "valid" /\ pHist[p].waitFailed

\* C1: two Leaders for one fingerprint at the same time, one of them beside
\* the valid lock record of the other.
C1_Witness ==
  \E p, q \in Procs :
    /\ p # q /\ serverUrlHash[p] = serverUrlHash[q]
    /\ IsLeader(p) /\ IsLeader(q)
    /\ p \in LeadersBesideForeignLock(serverUrlHash[p])
    /\ lockFile[serverUrlHash[p]] = pHist[q].wrote

\* C2 (as stated): when a Follower reads the tokens, the Leader it followed
\* has already saved the tokens of its login.
C2_FollowerReadsAfterSave ==
  \A p \in Procs :
    (skipBrowserAuth[p] = "true" /\ pHist[p].tokensAtRead # "unread")
      => pHist[p].leaderSavedAtRead

\* p started coordinateAuth with a lock record in place whose owner has been
\* running, with its listener bound, ever since.
OwnerStaysResponsive(p) ==
  /\ pc[p] \notin {"init", "off"}
  /\ \E r \in pHist[p].lockAtStart :
       r.pid # p /\ alive[r.pid] /\ listening[r.pid]

\* p has not opened a callback listener, not written a lock record and not
\* returned as Leader.
NeverLed(p) ==
  /\ ~listening[p] /\ pHist[p].listened = "no"
  /\ pHist[p].wrote = {}
  /\ skipBrowserAuth[p] # "false"
  /\ pc[p] \in {"isLockValid", "fetch", "response", "sleep", "connect",
                "connected", "hung"}

OwnerDead(p) ==
  /\ pc[p] \notin {"init", "off"}
  /\ pHist[p].lockAtStart # {}
  /\ ~pHist[p].ownerAliveAtStart

\* p classified the lock invalid, deleted it before it started its listener,
\* wrote a record with its own pid and port, and did not return otherwise
\* than as Leader.
TookOverInOrder(p) ==
  /\ pHist[p].checked # "valid"
  /\ pc[p] \notin {"init", "off", "isLockValid"} => pHist[p].checked = "invalid"
  /\ pHist[p].listened # "withoutDelete"
  /\ (listening[p] \/ pHist[p].listened # "no") => pHist[p].deleted
  /\ pHist[p].wrote # {} =>
       /\ pHist[p].listened = "afterDelete"
       /\ \A r \in pHist[p].wrote : r.pid = p /\ r.port = callbackPort[p]
  /\ skipBrowserAuth[p] # "true"
  /\ skipBrowserAuth[p] = "false" => pHist[p].wrote # {}

C2_FollowerHasRead ==
  \E p \in Procs :
    skipBrowserAuth[p] = "true" /\ pHist[p].tokensAtRead # "unread"

\* The step in which p's exit cleanup runs leaves in place every lock
\* record of p's server that names another process.
CleanupSparesForeignLock(p) ==
  (pc[p] # "exited" /\ pc'[p] = "exited")
    => \A r \in lockFile[serverUrlHash[p]] :
         r.pid # p => r \in lockFile'[serverUrlHash[p]]

\* C14 (as stated): the shutdown cleanup of a process deletes the lock record
\* of its server only if the record is its own; it never deletes a record
\* another process has written in the meantime.
C14_CleanupDeletesOnlyOwnLock ==
  [][\A p \in Procs : CleanupSparesForeignLock(p)]_vars

\* C15 (as stated): once a Leader has exited on a graceful shutdown, on
\* SIGINT or on SIGTERM, the lock record it wrote is no longer in place.
C15_OwnLockGoneAfterExit ==
  \A p \in Procs :
    pc[p] \in {"exited", "terminated"}
      => pHist[p].wrote \cap lockFile[serverUrlHash[p]] = {}

\* C32 (as stated): a process whose wait on the lock owner has failed, and
\* which has not been stopped by a signal, deletes the lock file, then starts
\* its own listener, writes a lock record with its own pid and port and
\* returns as Leader (skipBrowserAuth = false).
C32_FailedWaitTakesOver ==
  \A p \in Procs :
    (pHist[p].waitFailed /\ pc[p] \notin {"killed", "exited", "terminated"})
      => \/ pc[p] = "deleteLockfile"
         \/ /\ pHist[p].deleted /\ pHist[p].listened = "afterDelete"
            /\ \/ pc[p] = "createLockfile" /\ listening[p]
               \/ /\ skipBrowserAuth[p] = "false"
                  /\ pHist[p].wrote # {}
                  /\ \A r \in pHist[p].wrote :
                       r.pid = p /\ r.port = callbackPort[p]

\* C32: the owner a process was waiting on has died, and the process has
\* deleted the lock, started its listener, written its own record and is
\* Leader.
C32_TookOverAfterFailedWait ==
  \E p \in Procs :
    /\ pHist[p].waitFailed /\ pHist[p].deleted
    /\ IsLeader(p) /\ listening[p]
    /\ lockFile[serverUrlHash[p]] = pHist[p].wrote

\* C17 (as stated): a process whose callback listener could not be bound
\* keeps running: coordinateAuth has not failed and the process goes on to
\* write its lock and return as Leader.
C17_BindFailureNotFatal ==
  \A p \in Procs :
    pc[p] = "threw" => (alive[p] /\ skipBrowserAuth[p] # "unset")

-----------------------------------------------------------------------------
(***************************************************************************)
(* Shutdown of a Leader whose proxy is established: the SIGINT listener of *)
(* coordinateAuth (coordination.ts:269-273), the SIGINT and SIGTERM        *)
(* listeners of setupSignalHandlers (utils.ts:518-536) and runProxy's      *)
(* cleanup (proxy.ts:134-140).  Deno calls the listeners of a signal one   *)
(* after the other; each runs up to its first await.                       *)
(***************************************************************************)
\* The proxy is installed, both listeners are registered, the lock file of
\* the Leader is in place and no signal has arrived.
ShutdownInit ==
  /\ vIn = [registered |-> {"coordinateAuth", "setupSignalHandlers"}]
  /\ vPc = [cleanupHandler |-> "idle", cleanup |-> "idle"]
  /\ vResult = [alive |-> TRUE, signal |-> "none", lock |-> "present",
                closing |-> "ok", serverClose |-> "no", cleanupDone |-> FALSE,
                exitedBy |-> "none"]

\* The process is running.
Running == vResult.alive

\* remoteTransport.close() / localTransport.close() called by cleanup: the
\* call is counted and a transport whose close() resolves has run its
\* onclose handler; a rejection goes to cleanup, not to the proxy.
CleanupClose(t, ps, outcome) ==
  LET counted == [ps EXCEPT !.calls[t] = @ + 1] IN
  IF outcome[t] = "reject" THEN counted
  ELSE IF t = "server" THEN ServerOnClose(counted, outcome)
                       ELSE ClientOnClose(counted, outcome)

\* Deno.exit(0): the unload handler of coordinateAuth removes the lock file
\* and the process ends, whatever the other listener is waiting for.
DenoExit(r, by) ==
  [r EXCEPT !.alive = FALSE, !.lock = "removed", !.exitedBy = by]

\* The listener of setupSignalHandlers starts: cleanup() calls
\* remoteTransport.close() and awaits it.
CleanupStarts(signal, handler) ==
  \E outcome \in [Sides -> {"ok", "reject"}] :
    /\ SetProxyState(CleanupClose("server", ProxyState, outcome))
    /\ vPc' = [cleanupHandler |-> handler, cleanup |-> "remoteTransport.close"]
    /\ vResult' = [vResult EXCEPT !.signal = signal, !.closing = outcome["server"]]

\* SIGINT arrives: the listener of coordinateAuth calls cleanupHandler, which
\* awaits deleteLockfile, then the listener of setupSignalHandlers starts.
SigintDelivered ==
  /\ Running /\ vResult.signal = "none"
  /\ CleanupStarts("SIGINT", "deleteLockfile")
  /\ UNCHANGED <<vIn, reported, sentTo, received, listenerVars, coordVars, storeVars>>

\* SIGTERM arrives: only setupSignalHandlers listens for it.
SigtermDelivered ==
  /\ Running /\ vResult.signal = "none"
  /\ CleanupStarts("SIGTERM", "idle")
  /\ UNCHANGED <<vIn, reported, sentTo, received, listenerVars, coordVars, storeVars>>

\* Deno.remove of deleteLockfile settles (an error is logged): cleanupHandler
\* returns and the listener of coordinateAuth calls Deno.exit(0).
DeleteLockfileSettles ==
  /\ Running /\ vPc.cleanupHandler = "deleteLockfile"
  /\ vPc' = [vPc EXCEPT !.cleanupHandler = "exited"]
  /\ vResult' = DenoExit(vResult, "coordinateAuth")
  /\ UNCHANGED <<vIn, proxyVars, listenerVars, coordVars, storeVars>>

\* A close() awaited by cleanup rejects: cleanup and the listener reject, and
\* the unhandled rejection ends the process.
CleanupThrows ==
  /\ vPc' = [vPc EXCEPT !.cleanup = "threw"]
  /\ vResult' = [vResult EXCEPT !.alive = FALSE, !.exitedBy = "rejection"]
  /\ UNCHANGED proxyVars

\* remoteTransport.close() settles: cleanup calls localTransport.close().
RemoteCloseSettles ==
  /\ Running /\ vPc.cleanup = "remoteTransport.close"
  /\ IF vResult.closing = "reject" THEN CleanupThrows
     ELSE \E outcome \in [Sides -> {"ok", "reject"}] :
            /\ SetProxyState(CleanupClose("client", ProxyState, outcome))
            /\ vPc' = [vPc EXCEPT !.cleanup = "localTransport.close"]
            /\ vResult' = [vResult EXCEPT !.closing = outcome["client"]]
            /\ UNCHANGED <<reported, sentTo, received>>
  /\ UNCHANGED <<vIn, listenerVars, coordVars, storeVars>>

\* localTransport.close() settles: cleanup calls server.close() without
\* awaiting the shutdown and returns; the listener calls Deno.exit(0).
LocalCloseSettles ==
  /\ Running /\ vPc.cleanup = "localTransport.close"
  /\ IF vResult.closing = "reject" THEN CleanupThrows
     ELSE /\ vPc' = [vPc EXCEPT !.cleanup = "exited"]
          /\ vResult' = DenoExit([vResult EXCEPT !.serverClose = "called",
                                                 !.cleanupDone = TRUE],
                                 "setupSignalHandlers")
          /\ UNCHANGED proxyVars
  /\ UNCHANGED <<vIn, listenerVars, coordVars, storeVars>>

NextShutdown ==
  \/ Running /\ ClientCloseEvent
  \/ Running /\ ServerCloseEvent
  \/ SigintDelivered
  \/ SigtermDelivered
  \/ DeleteLockfileSettles
  \/ RemoteCloseSettles
  \/ LocalCloseSettles

\* C37 (as stated): a Leader that received SIGINT has exited only after
\* runProxy's cleanup has closed the remote transport, the local transport
\* and the callback server.
C37_ExitOnlyAfterCleanup ==
  (vResult.signal = "SIGINT" /\ ~vResult.alive) => vResult.cleanupDone

\* C37: SIGINT arrived and the listener of coordinateAuth has ended the
\* process while cleanup was waiting for remoteTransport.close().
C37_ExitedDuringCleanup ==
  /\ vResult.signal = "SIGINT" /\ vResult.exitedBy = "coordinateAuth"
  /\ vPc.cleanup = "remoteTransport.close"

\* C38 (as stated): when cleanup has run to its end with every close() firing
\* the transport's onclose handler, close() has been called exactly once on
\* each of the two transports.
C38_EachTransportClosedOnce ==
  (vResult.cleanupDone /\ errorLog = <<>>)
    => \A t \in Sides : closeCalls[t] = 1

\* C38: cleanup has run to its end on transports that had not closed before,
\* and close() was called twice on the local transport.
C38_LocalClosedTwice ==
  /\ vResult.cleanupDone /\ errorLog = <<>>
  /\ ~reported["client"] /\ ~reported["server"]
  /\ closeCalls["client"] = 2 /\ closeCalls["server"] = 1

-----------------------------------------------------------------------------
(***************************************************************************)
(* connectToRemoteServer (utils.ts:119-195), called by runProxy with what  *)
(* coordinateAuth returned: the Leader's waitForAuthCode and               *)
(* skipBrowserAuth = false, or the Follower's dummyWaitForAuthCode and     *)
(* skipBrowserAuth = true.  What start() and finishAuth() of the SDK's     *)
(* transport end with is drawn beforehand.                                 *)
(***************************************************************************)
\* What a rejected start() can throw: the SDK's UnauthorizedError, an Error
\* whose message mentions Unauthorized, another Error, a value that is no
\* Error.
StartErrors ==
  {[class |-> "UnauthorizedError", message |-> "Unauthorized"],
   [class |-> "Error", message |-> "SSE error: Unauthorized"],
   [class |-> "Error", message |-> "connect ECONNREFUSED"],
   [class |-> "string", message |-> "Unauthorized"]}
Connected == [class |-> "none", message |-> ""]

\* error.message.includes("Unauthorized")
IncludesUnauthorized(message) ==
  message \in {"Unauthorized", "SSE error: Unauthorized"}

\* A mutant of IsUnauthorized: every failure counts as an authentication
\* failure.
IsUnauthorizedAlways(error) == TRUE

\* The test of connectToRemoteServer's catch block
IsUnauthorized(error) ==
  \/ error.class = "UnauthorizedError"
  \/ error.class \in {"Error", "UnauthorizedError"}
       /\ IncludesUnauthorized(error.message)

ConnectInit ==
  /\ vIn \in [skipBrowserAuth : BOOLEAN,
              start : StartErrors \cup {Connected},
              finishAuth : {"ok", "throws"},
              newStart : StartErrors \cup {Connected}]
  /\ vPc = "transport.start"
  /\ vResult = [L |-> NewListener, starts |-> 1, waits |-> 0, finishAuths |-> 0,
                code |-> NULL, returned |-> "nothing", thrown |-> Connected]

\* await transport.start() settles: the transport is returned; or, on an
\* authentication failure, waitForAuthCode() is called (the Follower's never
\* resolves); or the error is thrown.
TransportStartSettles ==
  /\ vPc = "transport.start"
  /\ IF vIn.start = Connected
       THEN /\ vPc' = "returned"
            /\ vResult' = [vResult EXCEPT !.returned = "transport"]
     ELSE IF IsUnauthorized(vIn.start)
       THEN /\ vPc' = "waitForAuthCode"
            /\ vResult' = [vResult EXCEPT
                 !.waits = @ + 1,
                 !.L = IF vIn.skipBrowserAuth THEN @ ELSE WaitForAuthCode(@)]
     ELSE /\ vPc' = "threw"
          /\ vResult' = [vResult EXCEPT !.thrown = vIn.start]
  /\ UNCHANGED <<vIn, proxyVars, listenerVars, coordVars, storeVars>>

\* The browser requests GET /oauth/callback?code=... from the Leader's
\* listener.
CallbackArrives ==
  /\ ~vIn.skipBrowserAuth
  /\ vPc \in {"transport.start", "waitForAuthCode"}
  /\ Len(vResult.L.emitted) < MaxLogins
  /\ \E code \in Codes :
       vResult' = [vResult EXCEPT
                     !.L = [CallbackRoute(@, 0, code) EXCEPT !.reqs = <<>>]]
  /\ UNCHANGED <<vIn, vPc, proxyVars, listenerVars, coordVars, storeVars>>

\* await waitForAuthCode() resolves: transport.finishAuth(code) is called.
WaitForAuthCodeResolves ==
  /\ vPc = "waitForAuthCode"
  /\ \E w \in DOMAIN vResult.L.waiters :
       /\ vResult.L.waiters[w].state = "resolved"
       /\ vResult' = [vResult EXCEPT !.finishAuths = @ + 1,
                                     !.code = vResult.L.waiters[w].value]
  /\ vPc' = "finishAuth"
  /\ UNCHANGED <<vIn, proxyVars, listenerVars, coordVars, storeVars>>

\* await transport.finishAuth(code) settles: a new transport is created and
\* started, or the error is logged and thrown.
FinishAuthSettles ==
  /\ vPc = "finishAuth"
  /\ IF vIn.finishAuth = "ok"
       THEN /\ vPc' = "newTransport.start"
            /\ vResult' = [vResult EXCEPT !.starts = @ + 1]
       ELSE /\ vPc' = "threw"
            /\ vResult' = [vResult EXCEPT
                 !.thrown = [class |-> "Error", message |-> "finishAuth"]]
  /\ UNCHANGED <<vIn, proxyVars, listenerVars, coordVars, storeVars>>

\* await newTransport.start() settles: the new transport is returned, or the
\* error, whatever it is, is logged and thrown.
NewTransportStartSettles ==
  /\ vPc = "newTransport.start"
  /\ IF vIn.newStart = Connected
       THEN /\ vPc' = "returned"
            /\ vResult' = [vResult EXCEPT !.returned = "newTransport"]
       ELSE /\ vPc' = "threw"
            /\ vResult' = [vResult EXCEPT !.thrown = vIn.newStart]
  /\ UNCHANGED <<vIn, proxyVars, listenerVars, coordVars, storeVars>>

NextConnect ==
  \/ TransportStartSettles
  \/ CallbackArrives
  \/ WaitForAuthCodeResolves
  \/ FinishAuthSettles
  \/ NewTransportStartSettles

\* The call has returned or thrown.
ConnectSettled == vPc \in {"returned", "threw"}

\* C31: connectToRemoteServer starts a transport at most twice, waits for at
\* most one authorization code and calls finishAuth at most once; a failure
\* of the first start that is no authentication failure is thrown as it is,
\* without a wait; after an authentication failure it makes one wait, one
\* finishAuth with the code waited for and one new start, and a failure of
\* finishAuth or of the new start, Unauthorized or not, is thrown.
C31_NoSilentRetry ==
  /\ vResult.starts <= 2 /\ vResult.waits <= 1 /\ vResult.finishAuths <= 1
  /\ (vPc # "transport.start" /\ vIn.start # Connected
        /\ vIn.start.class \in {"string"} \cup
             (IF IncludesUnauthorized(vIn.start.message) THEN {} ELSE {"Error"}))
       => /\ vPc = "threw" /\ vResult.thrown = vIn.start
          /\ vResult.starts = 1 /\ vResult.waits = 0 /\ vResult.finishAuths = 0
  /\ vResult.waits = 1 =>
       (vIn.start # Connected /\ vPc # "transport.start")
  /\ vResult.finishAuths = 1 =>
       /\ vResult.waits = 1
       /\ vResult.code \in {vResult.L.emitted[i] : i \in DOMAIN vResult.L.emitted}
  /\ vResult.starts = 2 <=>
       (vResult.finishAuths = 1 /\ vPc # "finishAuth" /\ vIn.finishAuth = "ok")
  /\ (vResult.starts = 2 /\ vPc # "newTransport.start") =>
       IF vIn.newStart = Connected
         THEN vPc = "returned" /\ vResult.returned = "newTransport"
         ELSE vPc = "threw" /\ vResult.thrown = vIn.newStart
  /\ (vResult.finishAuths = 1 /\ vPc # "finishAuth" /\ vIn.finishAuth # "ok") =>
       vPc = "threw"
  /\ ConnectSettled => ~ENABLED NextConnect

\* C31: the first start failed as Unauthorized, one code was waited for and
\* exchanged, the new start failed as Unauthorized again and that error was
\* thrown.
C31_Witness ==
  /\ vPc = "threw"
  /\ vIn.start.class = "UnauthorizedError"
  /\ vIn.newStart.class = "UnauthorizedError"
  /\ vResult.thrown = vIn.newStart
  /\ vResult.starts = 2 /\ vResult.waits = 1 /\ vResult.finishAuths = 1

\* C36 (as stated): every call of connectToRemoteServer eventually returns
\* a transport or throws.
C36_ConnectEventuallySettles == <>ConnectSettled

\* C36: a Follower whose start was rejected as Unauthorized is waiting on
\* dummyWaitForAuthCode.
C36_FollowerAwaitsCode ==
  /\ vIn.skipBrowserAuth
  /\ vPc = "waitForAuthCode"
  /\ vResult.L.waiters = <<>>

-----------------------------------------------------------------------------
(***************************************************************************)
(* Followers waiting on a Leader that stays alive and responsive:          *)
(* waitForAuthentication (coordination.ts:131-158) against the Leader's    *)
(* wait-for-auth route (utils.ts:226-263).  The Leader has connected with  *)
(* stored tokens and expects no callback, or has sent the user to log in.  *)
(***************************************************************************)
\* Process 1 is the Leader named by the lock; the others found its lock valid.
Followers == 2 .. MaxProcs

FollowInit ==
  /\ vIn \in [leader : {"storedTokens", "awaitsLogin"}]
  /\ vPc = [f \in Followers |-> "isLockValid"]
  /\ vResult = [L |-> NewListener]

\* isLockValid's probe, fetch(`.../wait-for-auth?poll=false`), is answered by
\* the Leader's listener with 200 or 202: the lock is valid and coordinateAuth
\* calls waitForAuthentication.
FollowerValidates(f) ==
  /\ vPc[f] = "isLockValid"
  /\ LET probe == WaitForAuthRoute(vResult.L, f, "false").reqs[f] IN
       vPc' = [vPc EXCEPT ![f] = IF probe.sent \in {200, 202} THEN "fetch"
                                  ELSE "deleteLockfile"]
  /\ UNCHANGED <<vIn, vResult, proxyVars, listenerVars, coordVars, storeVars>>

\* waitForAuthentication: fetch(`http://127.0.0.1:${port}/wait-for-auth`)
\* reaches the Leader's listener.
FollowerFetch(f) ==
  /\ vPc[f] = "fetch"
  /\ vResult' = [vResult EXCEPT !.L = WaitForAuthRoute(@, f, ABSENT)]
  /\ vPc' = [vPc EXCEPT ![f] = "response"]
  /\ UNCHANGED <<vIn, proxyVars, listenerVars, coordVars, storeVars>>

\* The 30 s timer of the long poll the Leader holds for f fires.
FollowerLongPollTimeout(f) ==
  /\ f \in DOMAIN vResult.L.reqs
  /\ vResult.L.reqs[f].timer = "armed"
  /\ vResult' = [vResult EXCEPT !.L = LongPollTimer(@, f)]
  /\ UNCHANGED <<vIn, vPc, proxyVars, listenerVars, coordVars, storeVars>>

\* The user completes the login the Leader asked for: the browser requests
\* GET /oauth/callback?code=...
LoginCallback ==
  /\ vIn.leader = "awaitsLogin"
  /\ Len(vResult.L.emitted) < MaxLogins
  /\ \E code \in Codes :
       vResult' = [vResult EXCEPT
                     !.L = [CallbackRoute(@, 0, code) EXCEPT !.reqs = Drop(@, 0)]]
  /\ UNCHANGED <<vIn, vPc, proxyVars, listenerVars, coordVars, storeVars>>

\* waitForAuthentication reads the response: 200 returns true (coordinateAuth
\* returns as Follower), 202 sleeps 1 s, anything else returns false.
FollowerResponse(f) ==
  /\ vPc[f] = "response"
  /\ vResult.L.reqs[f].headersSent
  /\ LET turn == WaitForAuthenticationPoll(Response(vResult.L.reqs[f].sent),
                                           [polls |-> 0, returned |-> {}])
     IN vPc' = [vPc EXCEPT ![f] = IF turn.returned = {} THEN "sleep"
                                  ELSE IF turn.returned = {TRUE} THEN "true"
                                  ELSE "false"]
  /\ vResult' = [vResult EXCEPT !.L.reqs = Drop(@, f)]
  /\ UNCHANGED <<vIn, proxyVars, listenerVars, coordVars, storeVars>>

\* The 1 s sleep after a 202 ends: the loop goes round.
PollSleepEnds(f) ==
  /\ vPc[f] = "sleep"
  /\ vPc' = [vPc EXCEPT ![f] = "fetch"]
  /\ UNCHANGED <<vIn, vResult, proxyVars, listenerVars, coordVars, storeVars>>

NextFollow ==
  \/ \E f \in Followers : FollowerValidates(f)
  \/ \E f \in Followers : FollowerFetch(f)
  \/ \E f \in Followers : FollowerLongPollTimeout(f)
  \/ LoginCallback
  \/ \E f \in Followers : FollowerResponse(f)
  \/ \E f \in Followers : PollSleepEnds(f)

\* C35 (as stated): every process that found the lock of a Leader that
\* stays alive and responsive eventually returns from coordinateAuth,
\* whether or not the Leader ever receives a callback.
C35_FollowerEventuallyReturns ==
  \A f \in Followers :
    (vPc[f] = "fetch") ~> (vPc[f] \in {"true", "false"})

\* C35: the Leader connected with stored tokens, a follower's long poll was
\* answered 202 by the timer and the follower is about to poll again.
C35_PollsAgainWithoutLogin ==
  \E f \in Followers :
    /\ vIn.leader = "storedTokens"
    /\ vPc[f] = "sleep"
    /\ vResult.L.authCode = NULL

-----------------------------------------------------------------------------
InitProxy == ProxyInit /\ ValidIdle /\ ListenerInit /\ CoordIdle /\ StoreIdle
InitValid == ValidInit /\ ProxyInit /\ ListenerInit /\ CoordIdle /\ StoreIdle
InitListener == ListenerInit /\ ProxyInit /\ ValidIdle /\ CoordIdle /\ StoreIdle

SpecProxy == InitProxy /\ [][NextProxy]_vars
SpecValid == InitValid /\ [][NextValid]_vars
InitOpen == OpenInit /\ ProxyInit /\ ListenerInit /\ CoordIdle /\ StoreIdle
SpecOpen == InitOpen /\ [][NextOpen]_vars
InitWait == WaitInit /\ ProxyInit /\ ListenerInit /\ CoordIdle /\ StoreIdle
SpecWait == InitWait /\ [][NextWait]_vars
InitPort == PortInit /\ ProxyInit /\ ListenerInit /\ CoordIdle /\ StoreIdle
SpecPort == InitPort /\ [][NextPort]_vars
\* Events that are due happen: the server answers a listen(), an armed
\* timer fires, a close callback runs.
SpecPortLive ==
  /\ InitPort /\ [][NextPort]_vars
  /\ WF_vars(FindAvailablePortCall) /\ WF_vars(ListenEvent)
  /\ WF_vars(PortTimeout) /\ WF_vars(CloseCallback)
InitArgs == ArgsInit /\ ProxyInit /\ ListenerInit /\ CoordIdle /\ StoreIdle
SpecArgs == InitArgs /\ [][NextArgs]_vars
InitStore == StoreIdle /\ ProxyInit /\ ValidIdle /\ ListenerInit /\ CoordIdle
SpecStore == InitStore /\ [][NextStore]_vars
InitShutdown == ShutdownInit /\ ProxyInit /\ ListenerInit /\ CoordIdle /\ StoreIdle
SpecShutdown == InitShutdown /\ [][NextShutdown]_vars
InitConnect == ConnectInit /\ ProxyInit /\ ListenerInit /\ CoordIdle /\ StoreIdle
SpecConnect == InitConnect /\ [][NextConnect]_vars
\* Every awaited call of the SDK settles, and the user completes the login
\* the Leader has sent the browser to.
SpecConnectLive ==
  /\ InitConnect /\ [][NextConnect]_vars
  /\ WF_vars(TransportStartSettles) /\ WF_vars(CallbackArrives)
  /\ WF_vars(WaitForAuthCodeResolves) /\ WF_vars(FinishAuthSettles)
  /\ WF_vars(NewTransportStartSettles)
InitFollow == FollowInit /\ ProxyInit /\ ListenerInit /\ CoordIdle /\ StoreIdle
SpecFollow == InitFollow /\ [][NextFollow]_vars
\* The followers and the Leader's timers keep running; nothing obliges the
\* user to log in.
SpecFollowLive ==
  /\ InitFollow /\ [][NextFollow]_vars
  /\ \A f \in Followers :
       /\ WF_vars(FollowerValidates(f))
       /\ WF_vars(FollowerFetch(f)) /\ WF_vars(FollowerLongPollTimeout(f))
       /\ WF_vars(FollowerResponse(f)) /\ WF_vars(PollSleepEnds(f))
SpecListener == InitListener /\ [][NextListener]_vars
\* The timer of a long poll fires 30 s after the request, unless cleared.
SpecListenerLive ==
  InitListener /\ [][NextListener]_vars /\ WF_vars(LongPollTimeout)

=============================================================================
